---- MODULE Spec2Model ----
(***************************************************************************)
(* Model of alertmanager-github-receiver: the webhook receiver             *)
(* (alerts.ReceiverHandler), the issue tracker it talks to through         *)
(* issues.Client, and the requests that net/http serves concurrently.      *)
(*                                                                         *)
(* Every tracker call of processAlert is one atomic step of a request; the *)
(* local computation that follows a call (rendering, matching, choosing    *)
(* the next call) belongs to the same step.                                *)
(***************************************************************************)
EXTENDS Integers, Sequences, FiniteSets, TLC

\* Number of requests received in one behaviour; net/http serves each in a
\* goroutine of its own, so all of them can be in flight at once.
MaxRequests == 2

Slots == 1..MaxRequests

(***************************************************************************)
(* Values                                                                  *)
(***************************************************************************)

\* A Go map[string]string (template.KV) as a set of <<key, value>> pairs.
\* Indexing a key that is absent yields the zero value "".
KVGet(kv, k) ==
    IF \E p \in kv : p[1] = k THEN (CHOOSE p \in kv : p[1] = k)[2] ELSE ""

AlertNames == {"DiskRunningFull", "NodeDown"}
Statuses == {"firing", "resolved"}
RepoLabels == {{}, {<<"repo", "">>}, {<<"repo", "custom-repo">>}}

\* webhook.Message as decoded from the request body.  The "repo" label is
\* read only when an issue is created, so only firing notifications vary it.
Messages ==
    {m \in [status : Statuses,
            groupLabels : {{<<"alertname", a>>} : a \in AlertNames},
            commonLabels : RepoLabels] :
        m.status = "firing" \/ m.commonLabels = {}}

NoMessage == [status |-> "", groupLabels |-> {}, commonLabels |-> {}]

\* Data.Status is a string: a notification with no "status" field decodes
\* with the empty status, and any other text decodes as it is written.
AnyStatuses == Statuses \cup {"", "suppressed"}

\* Notifications of a route that groups by alertname and instance: two
\* groups of one alertname, and every status.
GroupMessages ==
    [status : AnyStatuses,
     groupLabels : {{<<"alertname", "DiskRunningFull">>, <<"instance", i>>} :
                        i \in {"a", "b"}},
     commonLabels : {{}}]

\* http.Request as the handlers read it: the URL path, the method and what
\* reading and decoding the body gives.
Methods == {"POST", "GET"}
Bodies == {"read error", "bad json", "json"}
Request(path, method, body) ==
    [path |-> path, method |-> method, body |-> body]
NoRequest == Request("", "", "")

\* Errors a tracker call can return.
TrackerErrors == {"rate limit exceeded", "server error"}

\* The tracker labels every issue this program creates with alertLabel and
\* lists by it.
alertLabel == "alert:boom:"

\* nil *github.Issue
NilIssue ==
    [number |-> 0, title |-> "", body |-> <<>>, repo |-> "", labels |-> {},
     open |-> FALSE]

\* No search loop is run on its own.
NoSearch ==
    [issues |-> <<>>, msgTitle |-> "", foundIssue |-> NilIssue, i |-> 1,
     pc |-> "idle"]

(***************************************************************************)
(* Templates                                                               *)
(***************************************************************************)

\* The templates a receiver can be built with: the defaults and a template
\* that names a field webhook.Message does not have.
TitleTemplates == {"DefaultTitleTmpl", "{{ .Foo }}"}
AlertTemplates == {"DefaultAlertTmpl", "{{ .NOTAREAL_FIELD }}"}

\* template.Execute: <<text, error>>.
\* DefaultTitleTmpl prints .Data.GroupLabels.alertname.
formatTitle(tmpl, m) ==
    IF tmpl = "DefaultTitleTmpl"
    THEN [text |-> KVGet(m.groupLabels, "alertname"), err |-> "nil"]
    ELSE [text |-> "", err |-> "can't evaluate field"]

\* msg.GroupKey: alertmanager builds the key of a group from the route and
\* the group labels.
GroupKey(m) ==
    "{}:{alertname=" \o KVGet(m.groupLabels, "alertname")
        \o (IF KVGet(m.groupLabels, "instance") = "" THEN ""
            ELSE ", instance=" \o KVGet(m.groupLabels, "instance"))
        \o "}"

\* fmt.Sprintf("0x%x", s) prints the bytes of s in hexadecimal, written
\* hex(s) here.
id(m) == "0x" \o "hex(" \o GroupKey(m) \o ")"

\* Mutant: the older formatIssueBody, which puts the identifier first.
formatIssueBody_WithID(tmpl, m) ==
    IF tmpl = "DefaultAlertTmpl"
    THEN [text |-> <<id(m), "Alertmanager URL:", m.status, m.groupLabels>>,
          err |-> "nil"]
    ELSE [text |-> <<>>, err |-> "can't evaluate field"]

\* DefaultAlertTmpl prints the alertmanager URL and, per alert, its status,
\* labels and annotations.
formatIssueBody(tmpl, m) ==
    IF tmpl = "DefaultAlertTmpl"
    THEN [text |-> <<"Alertmanager URL:", m.status, m.groupLabels>>,
          err |-> "nil"]
    ELSE [text |-> <<>>, err |-> "can't evaluate field"]

(***************************************************************************)
(* State                                                                   *)
(***************************************************************************)

VARIABLES
    rh,          \* the ReceiverHandler built by NewReceiver
    tracker,     \* the issues the tracker holds, in creation order
    pc,          \* per request: where its handler stands
    msg,         \* per request: the decoded webhook.Message
    msgTitle,    \* per request: the rendered title
    foundIssue,  \* per request: the matching issue of the list, or NilIssue
    calls,       \* per request: the Client calls made, in order
    err,         \* per request: what processAlert returned
    resp,        \* per request: the HTTP status written, 0 if none
    concurrent,  \* history: a request was received while another was in flight
    req,         \* per request: the http.Request as the handler reads it
    written,     \* per request: what the handler wrote to the response body
    receivedAlerts, \* counter githubreceiver_alerts_total by alertname, status
    createdIssues,  \* counter githubreceiver_created_issues_total by alertname
    listTemplate,   \* the template of the page of open issues
    search,         \* a run of the search loop on its own: input and result
    alerts,         \* per request: the annotations of each alert of the message
    cards,          \* the project cards the tracker holds: <<issue, column>>
    slices,         \* the array behind rh.ExtraLabels past its length; allLabels
    github,         \* the GitHub API as issues.Client sees it
    client,         \* the call of issues.Client that is running or returned last
    operationCount, \* counter githubreceiver_api_total by HTTP status
    local,          \* the in-memory local.Client: its map of issues by title
    log,            \* the calls made on local.Client one after another
    goroutine,      \* per request: its call on local.Client, map access open
    runtime,        \* the Go runtime: running, or stopped by a fatal error
    flags,          \* the command line main was started with
    process,        \* main: where it stands and the status it exited with
    split           \* a URL path as split into fields, and what was read from it

\* The counters of the receiver.
metrics == <<receivedAlerts, createdIssues>>

\* The in-memory tracker and the goroutines that call it.
inMemory == <<local, log, goroutine, runtime>>

\* What no handler changes: the state of the layers below and around them.
apart == <<github, client, operationCount, inMemory, flags, process, split>>

\* What the receiver route never changes.
aux == <<listTemplate, search, alerts, cards, slices, apart>>

vars ==
    <<rh, tracker, pc, msg, msgTitle, foundIssue, calls, err, resp, concurrent,
      req, written, receivedAlerts, createdIssues, listTemplate, search,
      alerts, cards, slices, github, client, operationCount, local, log,
      goroutine, runtime, flags, process, split>>

\* Records of the Client calls a request made.
ListCall(e) ==
    [op |-> "ListOpenIssues", repo |-> "", title |-> "", body |-> <<>>,
     extra |-> <<>>, issue |-> 0, label |-> "", add |-> FALSE,
     sent |-> TRUE, err |-> e]

CreateCall(repo, title, body, extra, e) ==
    [op |-> "CreateIssue", repo |-> repo, title |-> title, body |-> body,
     extra |-> extra, issue |-> 0, label |-> "", add |-> FALSE,
     sent |-> TRUE, err |-> e]

LabelCall(issue, label, add, sent, e) ==
    [op |-> "LabelIssue", repo |-> "", title |-> "", body |-> <<>>,
     extra |-> <<>>, issue |-> issue.number, label |-> label, add |-> add,
     sent |-> sent, err |-> e]

CloseCall(issue, e) ==
    [op |-> "CloseIssue", repo |-> "", title |-> "", body |-> <<>>,
     extra |-> <<>>, issue |-> issue.number, label |-> "", add |-> FALSE,
     sent |-> TRUE, err |-> e]

(***************************************************************************)
(* The tracker                                                             *)
(***************************************************************************)

\* Mutant: the search returns the closed issues too.
OpenIssues_All(tr) == SelectSeq(tr, LAMBDA i : alertLabel \in i.labels)

\* Search "is:open label:alertLabel", in the tracker's order.
OpenIssues(tr) ==
    SelectSeq(tr, LAMBDA i : i.open /\ alertLabel \in i.labels)

\* Issues.Create: the new issue carries alertLabel and the extra labels.
TrackerCreate(tr, repo, title, body, extra) ==
    Append(tr,
           [number |-> Len(tr) + 1, title |-> title, body |-> body,
            repo |-> repo,
            labels |-> {alertLabel} \cup {extra[i] : i \in DOMAIN extra},
            open |-> TRUE])

\* Mutant: removing a label leaves the labels of the issue as they are.
TrackerLabel_AddOnly(tr, n, label, add) ==
    [i \in DOMAIN tr |->
        IF tr[i].number = n /\ add
        THEN [tr[i] EXCEPT !.labels = @ \cup {label}]
        ELSE tr[i]]

\* Issues.AddLabelsToIssue / Issues.RemoveLabelForIssue on issue n.
TrackerLabel(tr, n, label, add) ==
    [i \in DOMAIN tr |->
        IF tr[i].number = n
        THEN [tr[i] EXCEPT !.labels =
                 IF add THEN @ \cup {label} ELSE @ \ {label}]
        ELSE tr[i]]

\* Issues.Edit with state "closed" on issue n.
TrackerClose(tr, n) ==
    [i \in DOMAIN tr |->
        IF tr[i].number = n THEN [tr[i] EXCEPT !.open = FALSE] ELSE tr[i]]

(***************************************************************************)
(* processAlert                                                            *)
(***************************************************************************)

\* Mutant: the search never finds an issue.
FindIssue_Never(issues, title) == NilIssue

\* The first issue of the list whose title equals the rendered title.
FindIssue(issues, title) ==
    IF \E i \in DOMAIN issues : issues[i].title = title
    THEN issues[CHOOSE i \in DOMAIN issues :
                    /\ issues[i].title = title
                    /\ \A j \in 1..(i - 1) : issues[j].title # title]
    ELSE NilIssue

\* Mutant: the "repo" label is used even when it is empty.
getTargetRepo_NoDefault(m) == KVGet(m.commonLabels, "repo")

\* The repository of a new issue: the "repo" label, else the default.
getTargetRepo(m) ==
    LET repo == KVGet(m.commonLabels, "repo")
    IN  IF repo # "" THEN repo ELSE rh.DefaultRepo

\* Mutant: the error of processAlert is logged and 200 answered.
StatusFor_AlwaysOK(e) == 200

\* ServeHTTP maps what processAlert returned to the response status.
StatusFor(e) == IF e = "nil" THEN 200 ELSE 500

\* processAlert returns e: the handler answers and is done.
Finish(r, e) ==
    /\ pc' = [pc EXCEPT ![r] = "done"]
    /\ err' = [err EXCEPT ![r] = e]
    /\ resp' = [resp EXCEPT ![r] = StatusFor(e)]

\* The decision of processAlert with every branch a parameter; AfterList is
\* the code's choice of branches, the mutants below each change one.
Decide(m, title, found, newFiring, reFiring, resolvedFound, resolvedNone) ==
    IF title.err # "nil" THEN "return title error"
    ELSE IF m.status = "firing"
         THEN IF found = NilIssue THEN newFiring ELSE reFiring
         ELSE IF m.status = "resolved" /\ found # NilIssue
              THEN resolvedFound
              ELSE resolvedNone

CreateOrBodyError(m) ==
    IF formatIssueBody(rh.alertTmpl, m).err # "nil"
    THEN "return body error"
    ELSE "CreateIssue"

\* Mutant: a new firing alert creates nothing.
AfterList_SkipCreate(m, title, found) ==
    Decide(m, title, found,
           "return nil", "LabelIssue remove", "LabelIssue add", "return nil")

\* Mutant: a firing alert creates an issue even when one was found.
AfterList_CreateOnRefire(m, title, found) ==
    Decide(m, title, found,
           CreateOrBodyError(m), CreateOrBodyError(m), "LabelIssue add",
           "return nil")

\* Mutant: a firing alert with an issue found does nothing.
AfterList_SkipRefireLabel(m, title, found) ==
    Decide(m, title, found,
           CreateOrBodyError(m), "return nil", "LabelIssue add", "return nil")

\* Mutant: a resolved alert closes the issue without labelling it.
AfterList_CloseWithoutLabel(m, title, found) ==
    Decide(m, title, found,
           CreateOrBodyError(m), "LabelIssue remove",
           IF rh.AutoClose THEN "CloseIssue" ELSE "LabelIssue add",
           "return nil")

\* Mutant: a resolved alert labels although no issue was found.
AfterList_LabelUnmatched(m, title, found) ==
    Decide(m, title, found,
           CreateOrBodyError(m), "LabelIssue remove", "LabelIssue add",
           "LabelIssue add")

\* Mutant: the error of formatIssueBody is dropped.
AfterList_IgnoreBodyError(m, title, found) ==
    Decide(m, title, found,
           "CreateIssue", "LabelIssue remove", "LabelIssue add", "return nil")

\* Mutant: an issue matches only a notification of the group it was
\* created for.
AfterList_OwnGroupOnly(m, title, found) ==
    LET own == IF found # NilIssue /\ Len(found.body) = 3
                     /\ found.body[3] # m.groupLabels
               THEN NilIssue ELSE found
    IN  Decide(m, title, own,
               CreateOrBodyError(m), "LabelIssue remove", "LabelIssue add",
               "return nil")

\* Mutant: every status but "firing" is handled as "resolved".
AfterList_ResolvedUnlessFiring(m, title, found) ==
    IF title.err # "nil" THEN "return title error"
    ELSE IF m.status = "firing"
         THEN IF found = NilIssue
              THEN CreateOrBodyError(m)
              ELSE "LabelIssue remove"
         ELSE IF found # NilIssue
              THEN "LabelIssue add"
              ELSE "return nil"

\* What follows the list: the next call, or the error to return.
AfterList(m, title, found) ==
    IF title.err # "nil" THEN "return title error"
    ELSE IF m.status = "firing"
         THEN IF found = NilIssue
              THEN IF formatIssueBody(rh.alertTmpl, m).err # "nil"
                   THEN "return body error"
                   ELSE "CreateIssue"
              ELSE "LabelIssue remove"
         ELSE IF m.status = "resolved" /\ found # NilIssue
              THEN "LabelIssue add"
              ELSE "return nil"

\* Mutant: the issue an earlier request found is used again instead of a
\* list of the request's own.
ListResult_Reused(r) ==
    IF r > 1 /\ foundIssue[r - 1] # NilIssue
    THEN <<foundIssue[r - 1]>>
    ELSE OpenIssues(tracker)

\* The issues processAlert searches: what its own ListOpenIssues call
\* returned.
ListResult(r) == OpenIssues(tracker)

\* Counter.Inc on the child of a CounterVec with the given label values.
Inc(counter, labelValues) ==
    [counter EXCEPT ![labelValues] = @ + 1]

\* Mutant: the body is read and decoded before the method is looked at.
Reject_DecodeFirst(method, body) ==
    IF body = "read error" THEN 500
    ELSE IF body = "bad json" THEN 400
    ELSE IF method # "POST" THEN 405
    ELSE 0

\* Mutant: a body that does not decode is handled as an empty notification.
Reject_IgnoreDecodeError(method, body) ==
    IF method # "POST" THEN 405
    ELSE IF body = "read error" THEN 500
    ELSE 0

\* The status ServeHTTP answers before processAlert is called, 0 if the
\* request gets through to processAlert.
Reject(method, body) ==
    IF method # "POST" THEN 405
    ELSE IF body = "read error" THEN 500
    ELSE IF body = "bad json" THEN 400
    ELSE 0

\* ServeHTTP up to and including the first tracker call of processAlert:
\* the method check, reading and decoding the body, ListOpenIssues,
\* formatTitle, the search for the matching issue, the count of the alert
\* and, for a new firing alert, formatIssueBody.  Requests take the slots in
\* order of arrival; messages are the notifications Alertmanager sends.
ServeHTTPOf(r, messages) ==
    /\ process.pc = "serving"
    /\ pc[r] = "idle"
    /\ \A q \in 1..(r - 1) : pc[q] # "idle"
    /\ concurrent' = (concurrent \/ \E q \in Slots : pc[q] \notin {"idle", "done"})
    /\ \E method \in Methods, body \in Bodies :
         /\ req' = [req EXCEPT ![r] = Request("/v1/receiver", method, body)]
         /\ IF Reject(method, body) # 0
            THEN /\ pc' = [pc EXCEPT ![r] = "done"]
                 /\ resp' = [resp EXCEPT ![r] = Reject(method, body)]
                 /\ UNCHANGED <<msg, msgTitle, foundIssue, calls, err,
                                receivedAlerts>>
            ELSE \E m \in messages, e \in {"nil"} \cup TrackerErrors :
              /\ msg' = [msg EXCEPT ![r] = m]
              /\ calls' = [calls EXCEPT ![r] = Append(@, ListCall(e))]
              /\ IF e # "nil"
                 THEN /\ Finish(r, e)
                      /\ UNCHANGED <<msgTitle, foundIssue, receivedAlerts>>
                 ELSE LET issues == ListResult(r)
                          title  == formatTitle(rh.titleTmpl, m)
                          found  == IF title.err = "nil"
                                    THEN FindIssue(issues, title.text)
                                    ELSE NilIssue
                          next   == AfterList(m, title, found)
                          alertName == KVGet(m.groupLabels, "alertname")
                      IN  /\ msgTitle' = [msgTitle EXCEPT ![r] = title.text]
                          /\ foundIssue' = [foundIssue EXCEPT ![r] = found]
                          /\ receivedAlerts' =
                                IF title.err = "nil"
                                THEN Inc(receivedAlerts, <<alertName, m.status>>)
                                ELSE receivedAlerts
                          /\ IF next = "return title error"
                             THEN Finish(r, "format title")
                             ELSE IF next = "return body error"
                             THEN Finish(r, "format body")
                             ELSE IF next = "return nil"
                             THEN Finish(r, "nil")
                             ELSE /\ pc' = [pc EXCEPT ![r] = next]
                                  /\ UNCHANGED <<err, resp>>
    /\ UNCHANGED <<rh, tracker, written, createdIssues, aux>>

\* ServeHTTP on the notifications of a route that groups by alertname.
ServeHTTP(r) == ServeHTTPOf(r, Messages)

\* ServeHTTP on the notifications of a route that groups by alertname and
\* instance.
ServeHTTPGroups(r) == ServeHTTPOf(r, GroupMessages)

\* Mutant: a CreateIssue that failed is counted too.
CountCreated_Always(counter, alertName, e) == Inc(counter, alertName)

\* createdIssues after CreateIssue returned e for an alert of this name.
CountCreated(counter, alertName, e) ==
    IF e = "nil" THEN Inc(counter, alertName) ELSE counter

\* Mutant: a CreateIssue that failed is tried once more.
CreateIssue_Retry(r) ==
    /\ pc[r] = "CreateIssue"
    /\ LET repo == getTargetRepo(msg[r])
           body == formatIssueBody(rh.alertTmpl, msg[r]).text
       IN  \E e \in {"nil"} \cup TrackerErrors :
             /\ calls' = [calls EXCEPT ![r] =
                   Append(@, CreateCall(repo, msgTitle[r], body,
                                        rh.ExtraLabels, e))]
             /\ tracker' = IF e = "nil"
                           THEN TrackerCreate(tracker, repo, msgTitle[r],
                                              body, rh.ExtraLabels)
                           ELSE tracker
             /\ createdIssues' =
                   CountCreated(createdIssues,
                                KVGet(msg[r].groupLabels, "alertname"), e)
             /\ IF e # "nil" /\ Len(calls[r]) < 2
                THEN UNCHANGED <<pc, err, resp>>
                ELSE Finish(r, e)
    /\ UNCHANGED <<rh, msg, msgTitle, foundIssue, concurrent, req, written,
                   receivedAlerts, aux>>

\* processAlert, firing and no issue found: CreateIssue.
CreateIssue(r) ==
    /\ pc[r] = "CreateIssue"
    /\ LET repo == getTargetRepo(msg[r])
           body == formatIssueBody(rh.alertTmpl, msg[r]).text
       IN  \E e \in {"nil"} \cup TrackerErrors :
             /\ calls' = [calls EXCEPT ![r] =
                   Append(@, CreateCall(repo, msgTitle[r], body,
                                        rh.ExtraLabels, e))]
             /\ tracker' = IF e = "nil"
                           THEN TrackerCreate(tracker, repo, msgTitle[r],
                                              body, rh.ExtraLabels)
                           ELSE tracker
             /\ createdIssues' =
                   CountCreated(createdIssues,
                                KVGet(msg[r].groupLabels, "alertname"), e)
             /\ Finish(r, e)
    /\ UNCHANGED <<rh, msg, msgTitle, foundIssue, concurrent, req, written,
                   receivedAlerts, aux>>

\* LabelIssue with the test that leads on to CloseIssue a parameter.
LabelIssueThen(r, add, closeNext(_)) ==
    LET label == rh.ResolvedLabel
        sent  == label # ""
    IN  \E e \in {"nil"} \cup TrackerErrors :
          /\ ~sent => e = "nil"
          /\ calls' = [calls EXCEPT ![r] =
                Append(@, LabelCall(foundIssue[r], label, add, sent, e))]
          /\ tracker' = IF sent /\ e = "nil"
                        THEN TrackerLabel(tracker, foundIssue[r].number,
                                          label, add)
                        ELSE tracker
          /\ IF add /\ closeNext(e)
             THEN /\ pc' = [pc EXCEPT ![r] = "CloseIssue"]
                  /\ UNCHANGED <<err, resp>>
             ELSE Finish(r, e)

\* Mutant: a resolved alert closes the issue whatever AutoClose says.
LabelIssue_IgnoreAutoClose(r, add) ==
    LabelIssueThen(r, add, LAMBDA e : e = "nil")

\* Mutant: the error of LabelIssue is not checked before CloseIssue.
LabelIssue_CloseAfterError(r, add) ==
    LabelIssueThen(r, add, LAMBDA e : rh.AutoClose)

\* Client.LabelIssue as processAlert calls it: nothing is sent for an empty
\* label (the issues of the tracker carry a well-formed repository URL, so
\* every other call is sent); after a successful add, AutoClose leads on to
\* CloseIssue.
LabelIssue(r, add) ==
    LET label == rh.ResolvedLabel
        sent  == label # ""
    IN  \E e \in {"nil"} \cup TrackerErrors :
          /\ ~sent => e = "nil"
          /\ calls' = [calls EXCEPT ![r] =
                Append(@, LabelCall(foundIssue[r], label, add, sent, e))]
          /\ tracker' = IF sent /\ e = "nil"
                        THEN TrackerLabel(tracker, foundIssue[r].number,
                                          label, add)
                        ELSE tracker
          /\ IF add /\ e = "nil" /\ rh.AutoClose
             THEN /\ pc' = [pc EXCEPT ![r] = "CloseIssue"]
                  /\ UNCHANGED <<err, resp>>
             ELSE Finish(r, e)

\* processAlert, firing and an issue found: remove the resolved label.
LabelIssueRemove(r) ==
    /\ pc[r] = "LabelIssue remove"
    /\ LabelIssue(r, FALSE)
    /\ UNCHANGED <<rh, msg, msgTitle, foundIssue, concurrent, req, written,
                   metrics, aux>>

\* processAlert, resolved and an issue found: add the resolved label.
LabelIssueAdd(r) ==
    /\ pc[r] = "LabelIssue add"
    /\ LabelIssue(r, TRUE)
    /\ UNCHANGED <<rh, msg, msgTitle, foundIssue, concurrent, req, written,
                   metrics, aux>>

\* processAlert, resolved, an issue found, labelled, AutoClose: CloseIssue.
CloseIssue(r) ==
    /\ pc[r] = "CloseIssue"
    /\ \E e \in {"nil"} \cup TrackerErrors :
         /\ calls' = [calls EXCEPT ![r] =
               Append(@, CloseCall(foundIssue[r], e))]
         /\ tracker' = IF e = "nil"
                       THEN TrackerClose(tracker, foundIssue[r].number)
                       ELSE tracker
         /\ Finish(r, e)
    /\ UNCHANGED <<rh, msg, msgTitle, foundIssue, concurrent, req, written,
                   metrics, aux>>

(***************************************************************************)
(* The search loop of processAlert, one iteration a step                   *)
(***************************************************************************)

\* The longest list the loop is run on.
MaxIssues == 3

\* Titles that differ in case only, and one that differs altogether.
SearchTitles == {"DiskRunningFull", "diskrunningfull", "NodeDown"}

\* strings.ToLower on SearchTitles.
ToLower(t) == IF t = "DiskRunningFull" THEN "diskrunningfull" ELSE t

\* What ListOpenIssues can return: open issues numbered in list order.
IssueLists ==
    UNION {[1..n -> SearchTitles] : n \in 0..MaxIssues}

ListOf(titles) ==
    [i \in DOMAIN titles |->
        [number |-> i, title |-> titles[i], body |-> <<>>, repo |-> "default",
         labels |-> {alertLabel}, open |-> TRUE]]

\* Mutant: titles are compared without regard to case.
RangeIssues_EqualFold(s) ==
    IF s.i > Len(s.issues)
    THEN [s EXCEPT !.pc = "done"]
    ELSE IF ToLower(s.msgTitle) = ToLower(s.issues[s.i].title)
    THEN [s EXCEPT !.foundIssue = s.issues[s.i], !.pc = "done"]
    ELSE [s EXCEPT !.i = s.i + 1]

\* One iteration of "for _, issue := range issues": the loop ends after the
\* last issue, or breaks with foundIssue set at the first equal title.
RangeIssues(s) ==
    IF s.i > Len(s.issues)
    THEN [s EXCEPT !.pc = "done"]
    ELSE IF s.msgTitle = s.issues[s.i].title
    THEN [s EXCEPT !.foundIssue = s.issues[s.i], !.pc = "done"]
    ELSE [s EXCEPT !.i = s.i + 1]

SearchStep ==
    /\ search.pc = "range"
    /\ search' = RangeIssues(search)
    /\ UNCHANGED <<rh, tracker, pc, msg, msgTitle, foundIssue, calls, err,
                   resp, concurrent, req, written, metrics, listTemplate,
                   alerts, cards, slices, apart>>

(***************************************************************************)
(* The receiver that reads the annotations of the first alert              *)
(***************************************************************************)

\* msg.Data.Alerts as far as this receiver reads it: the annotations of
\* each alert.  No alert; one without annotations; one naming labels and a
\* project column; one whose column id is no number; two naming one label.
AlertLists ==
    {<<>>,
     <<{}>>,
     <<{<<"github-labels", "team-a,urgent">>,
        <<"github-project-column-id", "42">>}>>,
     <<{<<"github-project-column-id", "abc">>}>>,
     <<{<<"github-labels", "team-a">>}>>,
     <<{<<"github-labels", "team-b">>}>>}

\* The notifications sent to this receiver: no "repo" label.
AnnotatedMessages == {m \in Messages : m.commonLabels = {}}

\* strings.Split(s, ",") on the values of AlertLists.
Split(s) ==
    IF s = "team-a,urgent" THEN <<"team-a", "urgent">> ELSE <<s>>

\* strconv.ParseInt(s, 10, 64) on the values of AlertLists: <<n, error>>.
ParseInt(s) ==
    IF s = "42" THEN [n |-> 42, err |-> "nil"]
    ELSE [n |-> 0, err |-> "invalid syntax"]

parseAdditionalGithubInfo(annotations) ==
    [AdditionalLabels |->
        IF \E kv \in annotations : kv[1] = "github-labels"
        THEN Split(KVGet(annotations, "github-labels"))
        ELSE <<>>,
     ProjectColumnId |->
        LET columnId == ParseInt(KVGet(annotations, "github-project-column-id"))
        IN  IF columnId.err # "nil" THEN 0 ELSE columnId.n]

\* The -label flags the receiver is started with, a label each.
LabelFlags == {<<"bug">>, <<"bug", "sev1", "ops">>}

\* The capacity append gives a slice of strings that has to grow to n
\* elements: twice the old capacity, or n when that is more.
GrowSlice(oldCap, n) == IF n > 2 * oldCap THEN n ELSE 2 * oldCap

\* The capacity of the slice the flags were appended to one by one, from
\* the nil slice.
RECURSIVE CapOf(_)
CapOf(n) ==
    IF n = 0 THEN 0
    ELSE IF n > CapOf(n - 1) THEN GrowSlice(CapOf(n - 1), n)
    ELSE CapOf(n - 1)

\* The array behind a slice past the length of the slice: zero values.
Spare(labels) == [i \in 1..(CapOf(Len(labels)) - Len(labels)) |-> ""]

\* A slice that append returned: on the array of rh.ExtraLabels with n of
\* its spare elements, or an array of its own.
NilSlice == [array |-> "nil", n |-> 0, own |-> <<>>]
NoSlices == [spare |-> <<>>, allLabels |-> [r \in Slots |-> NilSlice]]

\* append(rh.ExtraLabels, elems...) by request r: when the elements fit in
\* the capacity they are written to the array behind rh.ExtraLabels, which
\* every request appends to; a new array is allocated only when they do not.
appendExtraLabels(r, elems) ==
    IF Len(elems) <= Len(slices.spare)
    THEN [spare |-> [i \in DOMAIN slices.spare |->
                        IF i <= Len(elems) THEN elems[i] ELSE slices.spare[i]],
          allLabels |-> [slices.allLabels EXCEPT
                            ![r] = [array |-> "ExtraLabels", n |-> Len(elems),
                                    own |-> <<>>]]]
    ELSE [slices EXCEPT
             !.allLabels[r] = [array |-> "new", n |-> 0,
                               own |-> rh.ExtraLabels \o elems]]

\* The elements of allLabels of request r as a read finds them.
ReadAllLabels(r) ==
    IF slices.allLabels[r].array = "ExtraLabels"
    THEN rh.ExtraLabels \o SubSeq(slices.spare, 1, slices.allLabels[r].n)
    ELSE slices.allLabels[r].own

\* formatIssueBody of this receiver: alertTemplate, which ranges over the
\* alerts, behind the id of the message.
formatIssueBodyID(m, as) ==
    <<"<!-- ID -->", "Alertmanager URL:", m.status, m.groupLabels, as>>

AssignCall(issue, columnId, e) ==
    [op |-> "AssignIssueToProject", repo |-> "", title |-> "", body |-> <<>>,
     extra |-> <<>>, issue |-> issue.number, label |-> "", add |-> FALSE,
     sent |-> TRUE, err |-> e, column |-> columnId]

\* msg.Data.Alerts[0]: the first alert, or the index out of range that
\* panics the goroutine of the request.
FirstAlert(as) == IF as = <<>> THEN "panic" ELSE "alert"

\* ServeHTTP of this receiver up to and including the first tracker call of
\* processAlert, the count of the alert, the read of the annotations of
\* the first alert and the append that makes allLabels.  A panic ends the handler with no status written:
\* net/http recovers it and closes the connection.
ServeHTTPAnnotations(r) ==
    /\ process.pc = "serving"
    /\ pc[r] = "idle"
    /\ \A q \in 1..(r - 1) : pc[q] # "idle"
    /\ concurrent' = (concurrent \/ \E q \in Slots : pc[q] \notin {"idle", "done", "panic"})
    /\ \E method \in Methods, body \in Bodies :
         /\ req' = [req EXCEPT ![r] = Request("/v1/receiver", method, body)]
         /\ IF Reject(method, body) # 0
            THEN /\ pc' = [pc EXCEPT ![r] = "done"]
                 /\ resp' = [resp EXCEPT ![r] = Reject(method, body)]
                 /\ UNCHANGED <<msg, msgTitle, foundIssue, calls, err,
                                receivedAlerts, alerts, slices>>
            ELSE \E m \in AnnotatedMessages, as \in AlertLists,
                    e \in {"nil"} \cup TrackerErrors :
              /\ msg' = [msg EXCEPT ![r] = m]
              /\ alerts' = [alerts EXCEPT ![r] = as]
              /\ calls' = [calls EXCEPT ![r] = Append(@, ListCall(e))]
              /\ IF e # "nil"
                 THEN /\ Finish(r, e)
                      /\ UNCHANGED <<msgTitle, foundIssue, receivedAlerts,
                                     slices>>
                 ELSE LET title == formatTitle(rh.titleTmpl, m)
                          found == IF title.err = "nil"
                                   THEN FindIssue(ListResult(r), title.text)
                                   ELSE NilIssue
                          alertName == KVGet(m.groupLabels, "alertname")
                      IN  /\ msgTitle' = [msgTitle EXCEPT ![r] = title.text]
                          /\ foundIssue' = [foundIssue EXCEPT ![r] = found]
                          /\ IF title.err # "nil"
                             THEN /\ Finish(r, "format title")
                                  /\ UNCHANGED <<receivedAlerts, slices>>
                             ELSE /\ receivedAlerts' =
                                        Inc(receivedAlerts, <<alertName, m.status>>)
                                  /\ slices' =
                                        IF FirstAlert(as) = "panic"
                                        THEN slices
                                        ELSE appendExtraLabels(r,
                                                 parseAdditionalGithubInfo(
                                                     as[1]).AdditionalLabels)
                                  /\ IF FirstAlert(as) = "panic"
                                     THEN /\ pc' = [pc EXCEPT ![r] = "panic"]
                                          /\ UNCHANGED <<err, resp>>
                                     ELSE IF m.status = "firing"
                                     THEN /\ pc' = [pc EXCEPT ![r] =
                                                IF found = NilIssue
                                                THEN "CreateIssue annotations"
                                                ELSE "LabelIssue remove"]
                                          /\ UNCHANGED <<err, resp>>
                                     ELSE IF m.status = "resolved" /\ found # NilIssue
                                     THEN /\ pc' = [pc EXCEPT ![r] = "LabelIssue add"]
                                          /\ UNCHANGED <<err, resp>>
                                     ELSE Finish(r, "nil")
    /\ UNCHANGED <<rh, tracker, written, createdIssues, listTemplate, search,
                   cards, apart>>

\* processAlert of this receiver, firing and no issue found: CreateIssue
\* with allLabels, whose elements it copies when it is called; foundIssue is
\* what CreateIssue returned.  AssignIssueToProject follows when the column
\* id is not zero.
CreateIssueAnnotations(r) ==
    /\ pc[r] = "CreateIssue annotations"
    /\ LET info == parseAdditionalGithubInfo(alerts[r][1])
           allLabels == ReadAllLabels(r)
           repo == getTargetRepo(msg[r])
           body == formatIssueBodyID(msg[r], alerts[r])
       IN  \E e \in {"nil"} \cup TrackerErrors :
             /\ calls' = [calls EXCEPT ![r] =
                   Append(@, CreateCall(repo, msgTitle[r], body, allLabels, e))]
             /\ tracker' = IF e = "nil"
                           THEN TrackerCreate(tracker, repo, msgTitle[r],
                                              body, allLabels)
                           ELSE tracker
             /\ foundIssue' = [foundIssue EXCEPT ![r] =
                   IF e = "nil" THEN tracker'[Len(tracker')] ELSE NilIssue]
             /\ createdIssues' =
                   CountCreated(createdIssues,
                                KVGet(msg[r].groupLabels, "alertname"), e)
             /\ IF info.ProjectColumnId # 0
                THEN /\ pc' = [pc EXCEPT ![r] = "AssignIssueToProject"]
                     /\ err' = [err EXCEPT ![r] = e]
                     /\ UNCHANGED resp
                ELSE Finish(r, e)
    /\ UNCHANGED <<rh, msg, msgTitle, concurrent, req, written,
                   receivedAlerts, aux>>

\* processAlert of this receiver: AssignIssueToProject with what CreateIssue
\* returned; its error is logged and the error of CreateIssue returned.  A
\* card is made for an issue that exists only.
AssignIssueToProject(r) ==
    /\ pc[r] = "AssignIssueToProject"
    /\ LET columnId == parseAdditionalGithubInfo(alerts[r][1]).ProjectColumnId
       IN  \E e \in {"nil"} \cup TrackerErrors :
             /\ foundIssue[r] = NilIssue => e # "nil"
             /\ calls' = [calls EXCEPT ![r] =
                   Append(@, AssignCall(foundIssue[r], columnId, e))]
             /\ cards' = IF e = "nil"
                         THEN Append(cards, <<foundIssue[r].number, columnId>>)
                         ELSE cards
    /\ pc' = [pc EXCEPT ![r] = "done"]
    /\ resp' = [resp EXCEPT ![r] = StatusFor(err[r])]
    /\ UNCHANGED <<rh, tracker, msg, msgTitle, foundIssue, err, concurrent,
                   req, written, metrics, listTemplate, search, alerts, slices,
                   apart>>

(***************************************************************************)
(* The list route                                                          *)
(***************************************************************************)

\* The paths the mux hands to the ListHandler: "/" and whatever else no
\* other pattern takes.
Paths == {"/", "/favicon.ico"}

\* The page template and one that names a field github.Issue does not have.
ListTemplates == {"listRawHTMLTemplate", "{{range .}}{{.KeyDoesNotExist}}{{end}}"}

\* listTemplate.Execute on the issues: <<text, error>>.  The page links
\* every issue by its title; the body of {{range .}} runs once per issue.
Execute(tmpl, issues) ==
    IF tmpl = "listRawHTMLTemplate"
    THEN [text |-> <<"Open Issues",
                     [i \in DOMAIN issues |->
                         <<issues[i].repo, issues[i].number, issues[i].title>>]>>,
          err |-> "nil"]
    ELSE IF issues = <<>>
    THEN [text |-> <<"", <<>>>>, err |-> "nil"]
    ELSE [text |-> <<>>, err |-> "can't evaluate field"]

\* Mutant: the path of the request is not looked at.
WrongMethod_AnyPath(path, method) == method # "GET"

\* The test ListHandler.ServeHTTP starts with.
WrongMethod(path, method) == path # "/" \/ method # "GET"

\* ListHandler.ServeHTTP: the whole handler, its one tracker call included.
ListServeHTTP(r) ==
    /\ process.pc = "serving"
    /\ pc[r] = "idle"
    /\ \A q \in 1..(r - 1) : pc[q] # "idle"
    /\ concurrent' = (concurrent \/ \E q \in Slots : pc[q] \notin {"idle", "done"})
    /\ pc' = [pc EXCEPT ![r] = "done"]
    /\ \E path \in Paths, method \in Methods :
         /\ req' = [req EXCEPT ![r] = Request(path, method, "")]
         /\ IF WrongMethod(path, method)
            THEN /\ resp' = [resp EXCEPT ![r] = 405]
                 /\ written' = [written EXCEPT ![r] = <<"Wrong method">>]
                 /\ UNCHANGED calls
            ELSE \E e \in {"nil"} \cup TrackerErrors :
                 /\ calls' = [calls EXCEPT ![r] = Append(@, ListCall(e))]
                 /\ IF e # "nil"
                    THEN /\ resp' = [resp EXCEPT ![r] = 500]
                         /\ written' = [written EXCEPT ![r] = <<e>>]
                    ELSE LET page == Execute(listTemplate, OpenIssues(tracker))
                         IN  IF page.err # "nil"
                             THEN /\ resp' = [resp EXCEPT ![r] = 500]
                                  /\ written' = [written EXCEPT ![r] = <<page.err>>]
                             ELSE /\ resp' = [resp EXCEPT ![r] = 200]
                                  /\ written' = [written EXCEPT ![r] = page.text]
    /\ UNCHANGED <<rh, tracker, msg, msgTitle, foundIssue, err, metrics, aux>>

(***************************************************************************)
(* issues.Client on the GitHub API                                         *)
(***************************************************************************)

\* Client calls made in one behaviour (the counters grow with each).
MaxCalls == 2

\* The most pages one search has.
MaxPages == 3

\* *github.Response as the Client reads it; NilResponse is the nil pointer
\* go-github returns when the request got no response.
Response(code, next) == [StatusCode |-> code, NextPage |-> next]
NilResponse == Response(0, 0)

\* What can go wrong with one API request, whatever it asks for.
Faults == {"none", "server error", "network error"}

\* go-github's Do: the response and the error of a request that would be
\* answered with code and next were there no fault.  A status of 400 and
\* above comes with an *ErrorResponse, a request without response with the
\* error of the transport.
Do(fault, code, next) ==
    IF fault = "network error"
    THEN [resp |-> NilResponse, err |-> "connection refused"]
    ELSE IF fault = "server error"
    THEN [resp |-> Response(500, 0), err |-> "500 Internal Server Error"]
    ELSE [resp |-> Response(code, next),
          err |-> IF code = 404 THEN "404 Not Found" ELSE "nil"]

\* An API request the Client sent.
APIRequest(api, number, labels, page, title) ==
    [api |-> api, number |-> number, labels |-> labels, page |-> page,
     title |-> title]

\* url.Parse on the RepositoryURL values of the issues below: the error.
ParseURL(repoURL) ==
    IF repoURL = "-://bad-url.com" THEN "first path segment in URL cannot contain colon"
    ELSE "nil"

\* strings.Split(u.Path, "/") on the RepositoryURL values of the issues
\* below; no field for the empty URL and for the one that does not parse.
PathFields(repoURL) ==
    IF repoURL = "https://api.github.com/repos/fake-org/fake-repo"
    THEN <<"", "repos", "fake-org", "fake-repo">>
    ELSE IF repoURL = "https://api.github.com/repos/fake-repo"
    THEN <<"", "repos", "fake-repo">>
    ELSE <<>>

NoRepo(e) == [org |-> "", repo |-> "", err |-> e]

\* Mutant: the first "repos" field decides, wherever it stands.
RECURSIVE RangeFields_FirstRepos(_, _)
RangeFields_FirstRepos(fields, i) ==
    IF i > Len(fields)
    THEN NoRepo("issue has invalid RepositoryURL path values")
    ELSE IF fields[i] = "repos" /\ i + 2 <= Len(fields)
    THEN [org |-> fields[i + 1], repo |-> fields[i + 2], err |-> "nil"]
    ELSE RangeFields_FirstRepos(fields, i + 1)

\* The loop of getOrgAndRepoFromIssue from field i on (fields count from 1
\* here, from 0 in Go): the two fields after a "repos" that are the last.
RECURSIVE RangeFields(_, _)
RangeFields(fields, i) ==
    IF i > Len(fields)
    THEN NoRepo("issue has invalid RepositoryURL path values")
    ELSE IF fields[i] = "repos" /\ i + 2 = Len(fields)
    THEN [org |-> fields[i + 1], repo |-> fields[i + 2], err |-> "nil"]
    ELSE RangeFields(fields, i + 1)

\* getOrgAndRepoFromIssue once the path is split.
OrgAndRepo(fields) ==
    IF Len(fields) < 4
    THEN NoRepo("issue has invalid RepositoryURL path values")
    ELSE RangeFields(fields, 1)

MaxFields == 5

\* What a field of a path can be: empty, as before a leading "/", the word
\* "repos", or another name.
Fields == {"", "repos", "api", "fake-org", "fake-repo"}

\* What strings.Split(u.Path, "/") can give: at least one field.
FieldLists == UNION {[1..n -> Fields] : n \in 1..MaxFields}

\* No path split yet.
NoPath == [pc |-> "idle", fields |-> <<>>, org |-> "", repo |-> "", err |-> "nil"]

\* getOrgAndRepoFromIssue on the fields of a path.
ReadOrgAndRepo ==
    /\ split.pc = "split"
    /\ LET where == OrgAndRepo(split.fields)
       IN  split' = [split EXCEPT !.pc = "done", !.org = where.org,
                                !.repo = where.repo, !.err = where.err]
    /\ UNCHANGED <<rh, tracker, pc, msg, msgTitle, foundIssue, calls, err,
                   resp, concurrent, req, written, metrics, listTemplate,
                   search, alerts, cards, slices, github, client, operationCount,
                   inMemory, flags, process>>

\* The issues the Client is called with: one as the search returns it, one
\* without RepositoryURL, one whose URL lacks the organisation, one whose
\* URL does not parse.
ClientIssues ==
    {[number |-> 1, RepositoryURL |-> u] :
        u \in {"https://api.github.com/repos/fake-org/fake-repo", "",
               "https://api.github.com/repos/fake-repo", "-://bad-url.com"}}

\* Mutant: whatever the URL, the organisation and repository of the test.
getOrgAndRepoFromIssue_Trusting(issue) ==
    [org |-> "fake-org", repo |-> "fake-repo", err |-> "nil"]

getOrgAndRepoFromIssue(issue) ==
    IF issue.RepositoryURL = ""
    THEN NoRepo("issue has invalid RepositoryURL value")
    ELSE IF ParseURL(issue.RepositoryURL) # "nil"
    THEN NoRepo(ParseURL(issue.RepositoryURL))
    ELSE OrgAndRepo(PathFields(issue.RepositoryURL))

\* No call of the Client yet.
NoCall ==
    [pc |-> "idle", n |-> 0, op |-> "", issue |-> 0, label |-> "",
     add |-> FALSE, given |-> <<>>, extra |-> <<>>, sent |-> <<>>,
     fault |-> "none", code |-> 0, err |-> "nil", issues |-> <<>>,
     pages |-> <<>>, page |-> 0, allIssues |-> <<>>]

\* A call starts when the one before returned or panicked.
CallStarts == client.pc \in {"idle", "returned", "panic"} /\ client.n < MaxCalls

\* The labels CreateIssue puts on an issue.
ExtraLists == {<<>>, <<"bug">>, <<"bug", "team-a">>}

\* updateRateMetrics: the count of the operation by its status.  (It reads
\* resp.Rate first: with a nil resp it panics, which the callers below test
\* before they count.)
updateRateMetrics(d) ==
    [operationCount EXCEPT ![d.resp.StatusCode] = @ + 1]

\* Mutant: the extra labels come before the alert label.
CreateLabels_ExtraFirst(extra) ==
    [labels |-> extra \o <<alertLabel>>, extra |-> extra]

\* Client.CreateIssue: the labels of the request, made in a slice of their
\* own, and the caller's slice after the loop.
CreateLabels(extra) ==
    [labels |-> [i \in 1..(Len(extra) + 1) |->
                    IF i = 1 THEN alertLabel ELSE extra[i - 1]],
     extra |-> extra]

\* Client.CreateIssue, the whole call: one Issues.Create request.
ClientCreateIssue ==
    /\ CallStarts
    /\ \E title \in AlertNames, extra \in ExtraLists, fault \in Faults :
         LET l == CreateLabels(extra)
             d == Do(fault, 201, 0)
             call == [NoCall EXCEPT
                         !.n = client.n + 1, !.op = "CreateIssue",
                         !.given = extra, !.extra = l.extra,
                         !.sent = <<APIRequest("Issues.Create", 0, l.labels,
                                               0, title)>>,
                         !.fault = fault, !.code = d.resp.StatusCode]
         IN  IF d.resp = NilResponse
             THEN /\ client' = [call EXCEPT !.pc = "panic"]
                  /\ UNCHANGED <<github, operationCount>>
             ELSE /\ client' = [call EXCEPT !.pc = "returned", !.err = d.err]
                  /\ operationCount' = updateRateMetrics(d)
                  /\ github' =
                        IF d.err = "nil"
                        THEN [github EXCEPT !.created =
                                 Append(@, [title |-> title, labels |-> l.labels])]
                        ELSE github
    /\ UNCHANGED <<rh, tracker, pc, msg, msgTitle, foundIssue, calls, err,
                   resp, concurrent, req, written, metrics, listTemplate,
                   search, alerts, cards, slices, inMemory, flags,
                   process, split>>

\* The status ServeHTTP answers when the Client call it waits for ends: a
\* panic passes through processAlert and ServeHTTP, net/http recovers it and
\* closes the connection with no status written.
HandlerStatus(c) == IF c.pc = "panic" THEN 0 ELSE StatusFor(c.err)

\* Mutant: the 404 of a remove is returned like any other error.
NotFoundIsSuccess_Never(add, d) == d.err

\* Client.LabelIssue: the error returned after the request; a remove
\* answered 404 counts as done.
NotFoundIsSuccess(add, d) ==
    IF ~add /\ d.resp.StatusCode = 404 THEN "nil" ELSE d.err

\* Client.LabelIssue, the whole call: at most one request.  The API adds a
\* label whether or not the issue has it, and answers 404 to the removal
\* of a label the issue does not have.  With no response the call panics:
\* a remove at resp.StatusCode, an add in updateRateMetrics.
ClientLabelIssue ==
    /\ CallStarts
    /\ \E issue \in ClientIssues, label \in {"", "resolved"}, add \in BOOLEAN,
          fault \in Faults :
         LET call == [NoCall EXCEPT
                         !.n = client.n + 1, !.op = "LabelIssue",
                         !.issue = issue, !.label = label, !.add = add]
             where == getOrgAndRepoFromIssue(issue)
             d == IF add \/ label \in github.labels
                  THEN Do(fault, 200, 0)
                  ELSE Do(fault, 404, 0)
             request == APIRequest(IF add THEN "Issues.AddLabelsToIssue"
                                          ELSE "Issues.RemoveLabelForIssue",
                                   issue.number, <<label>>, 0, "")
         IN  IF label = ""
             THEN /\ fault = "none"
                  /\ client' = [call EXCEPT !.pc = "returned"]
                  /\ UNCHANGED <<github, operationCount>>
             ELSE IF where.err # "nil"
             THEN /\ fault = "none"
                  /\ client' = [call EXCEPT !.pc = "returned",
                                            !.err = where.err]
                  /\ UNCHANGED <<github, operationCount>>
             ELSE IF d.resp = NilResponse
             THEN /\ client' = [call EXCEPT !.pc = "panic", !.fault = fault,
                                            !.sent = <<request>>]
                  /\ UNCHANGED <<github, operationCount>>
             ELSE /\ client' = [call EXCEPT !.pc = "returned", !.fault = fault,
                                            !.sent = <<request>>,
                                            !.code = d.resp.StatusCode,
                                            !.err = NotFoundIsSuccess(add, d)]
                  /\ operationCount' = updateRateMetrics(d)
                  /\ github' =
                        IF d.resp.StatusCode = 200
                        THEN [github EXCEPT !.labels =
                                 IF add THEN @ \cup {label} ELSE @ \ {label}]
                        ELSE github
    /\ UNCHANGED <<rh, tracker, pc, msg, msgTitle, foundIssue, calls, err,
                   resp, concurrent, req, written, metrics, listTemplate,
                   search, alerts, cards, slices, inMemory, flags,
                   process, split>>

\* Client.CloseIssue: Issues.Edit with the state "closed".
ClientCloseIssue ==
    /\ CallStarts
    /\ \E issue \in ClientIssues, fault \in Faults :
         LET call == [NoCall EXCEPT
                         !.n = client.n + 1, !.op = "CloseIssue",
                         !.issue = issue]
             where == getOrgAndRepoFromIssue(issue)
             d == Do(fault, 200, 0)
             request == APIRequest("Issues.Edit", issue.number, <<>>, 0, "")
         IN  IF where.err # "nil"
             THEN /\ fault = "none"
                  /\ client' = [call EXCEPT !.pc = "returned",
                                            !.err = where.err]
                  /\ UNCHANGED <<github, operationCount>>
             ELSE IF d.resp = NilResponse
             THEN /\ client' = [call EXCEPT !.pc = "panic", !.fault = fault,
                                            !.sent = <<request>>]
                  /\ UNCHANGED <<github, operationCount>>
             ELSE /\ client' = [call EXCEPT !.pc = "returned", !.fault = fault,
                                            !.sent = <<request>>,
                                            !.code = d.resp.StatusCode,
                                            !.err = d.err]
                  /\ operationCount' = updateRateMetrics(d)
                  /\ github' = IF d.err = "nil"
                               THEN [github EXCEPT !.closed = TRUE]
                               ELSE github
    /\ UNCHANGED <<rh, tracker, pc, msg, msgTitle, foundIssue, calls, err,
                   resp, concurrent, req, written, metrics, listTemplate,
                   search, alerts, cards, slices, inMemory, flags, process, split>>

\* What a search can answer: up to MaxPages pages of up to two issues
\* each, the issues numbered by page and place.
PageSets ==
    {[p \in DOMAIN sizes |-> [k \in 1..sizes[p] |-> 10 * p + k]] :
        sizes \in UNION {[1..n -> {0, 1, 2}] : n \in 1..MaxPages}}

\* Mutant: the next request asks for the page of the last one again.
NextPageOption_Same(page, d) == page

\* sopts.ListOptions.Page = resp.NextPage
NextPageOption(page, d) == d.resp.NextPage

\* Client.ListOpenIssues up to its loop: allIssues is nil and sopts names
\* no page.  The pages are what the search holds while the call runs.
ClientListOpenIssues ==
    /\ CallStarts
    /\ \E pages \in PageSets :
         client' = [NoCall EXCEPT
                       !.n = client.n + 1, !.op = "ListOpenIssues",
                       !.pages = pages, !.pc = "Search.Issues"]
    /\ UNCHANGED <<rh, tracker, pc, msg, msgTitle, foundIssue, calls, err,
                   resp, concurrent, req, written, metrics, listTemplate,
                   search, alerts, cards, slices, github, operationCount,
                   inMemory, flags, process, split>>

\* One iteration of the loop of Client.ListOpenIssues: the request for the
\* page sopts names (page 0 is the first), updateRateMetrics, the error
\* test, the issues appended, and the break or the next page.
SearchIssues ==
    /\ client.pc = "Search.Issues"
    /\ \E fault \in Faults :
         LET p == IF client.page = 0 THEN 1 ELSE client.page
             d == Do(fault, 200, IF p < Len(client.pages) THEN p + 1 ELSE 0)
             asked == [client EXCEPT
                          !.sent = Append(@, APIRequest("Search.Issues", 0,
                                                        <<>>, client.page, "")),
                          !.fault = fault, !.code = d.resp.StatusCode]
             all == client.allIssues \o client.pages[p]
         IN  IF d.resp = NilResponse
             THEN /\ client' = [asked EXCEPT !.pc = "panic"]
                  /\ UNCHANGED operationCount
             ELSE /\ operationCount' = updateRateMetrics(d)
                  /\ client' =
                        IF d.err # "nil"
                        THEN [asked EXCEPT !.pc = "returned", !.err = d.err]
                        ELSE IF d.resp.NextPage = 0
                        THEN [asked EXCEPT !.pc = "returned",
                                           !.allIssues = all, !.issues = all]
                        ELSE [asked EXCEPT !.allIssues = all,
                                           !.page = NextPageOption(
                                                       client.page, d)]
    /\ UNCHANGED <<rh, tracker, pc, msg, msgTitle, foundIssue, calls, err,
                   resp, concurrent, req, written, metrics, listTemplate,
                   search, alerts, cards, slices, github, inMemory, flags,
                   process, split>>

(***************************************************************************)
(* local.Client, the in-memory tracker                                     *)
(***************************************************************************)

MaxLocalCalls == 4

LocalTitles == {"alert name", "other alert"}
LocalBodies == {"foobar", "baz"}

\* &github.Issue{Title: &title, Body: &body}
LocalIssue(title, body) == [title |-> title, body |-> body]

\* The issues CloseIssue is given: listed ones, stale ones, and one whose
\* title was never created.
CloseInputs ==
    {LocalIssue(t, b) :
        t \in LocalTitles \cup {"cannot-close-missing-issue"},
        b \in LocalBodies}

\* Mutant: an entry of the map is never replaced.
MapPut_KeepOld(m, k, v) ==
    [x \in DOMAIN m \cup {k} |-> IF x \in DOMAIN m THEN m[x] ELSE v]

\* Mutant: a key that is in the map gets a second entry.
MapPut_SecondEntry(m, k, v) ==
    LET key == IF k \in DOMAIN m THEN k \o " (2)" ELSE k
    IN  [x \in DOMAIN m \cup {key} |-> IF x = key THEN v ELSE m[x]]

\* m[k] = v
MapPut(m, k, v) == [x \in DOMAIN m \cup {k} |-> IF x = k THEN v ELSE m[x]]

\* delete(m, k)
MapDelete(m, k) == [x \in DOMAIN m \ {k} |-> m[x]]

\* Mutant: every title is taken for one of the map.
MapHas_Always(m, k) == TRUE

\* _, ok := m[k]
MapHas(m, k) == k \in DOMAIN m

\* for title := range m: Go visits the keys in an order it does not fix.
RangeOrders(m) ==
    {order \in [1..Cardinality(DOMAIN m) -> DOMAIN m] :
        \A i, j \in DOMAIN order : order[i] = order[j] => i = j}

\* A call of local.Client that returned.
LocalCall(op, issue, ret, e) ==
    [op |-> op, issue |-> issue, ret |-> ret, err |-> e]

LocalCallStarts == Len(log) < MaxLocalCalls

LocalRest ==
    UNCHANGED <<rh, tracker, pc, msg, msgTitle, foundIssue, calls, err, resp,
                concurrent, req, written, metrics, listTemplate, search,
                alerts, cards, slices, github, client, operationCount, flags,
                process, split>>

LocalCreateIssue ==
    /\ LocalCallStarts
    /\ \E title \in LocalTitles, body \in LocalBodies :
         LET issue == LocalIssue(title, body)
         IN  /\ local' = [local EXCEPT
                             !.issues = MapPut(@, title, issue)]
             /\ log' = Append(log, LocalCall("CreateIssue", issue,
                                             <<local'.issues[title]>>, "nil"))
    /\ UNCHANGED <<goroutine, runtime>>
    /\ LocalRest

LocalListOpenIssues ==
    /\ LocalCallStarts
    /\ \E order \in RangeOrders(local.issues) :
         log' = Append(log,
                       LocalCall("ListOpenIssues", LocalIssue("", ""),
                                 [i \in DOMAIN order |->
                                     local.issues[order[i]]],
                                 "nil"))
    /\ UNCHANGED <<local, goroutine, runtime>>
    /\ LocalRest

LocalCloseIssue ==
    /\ LocalCallStarts
    /\ \E issue \in CloseInputs :
         IF ~MapHas(local.issues, issue.title)
         THEN /\ log' = Append(log, LocalCall("CloseIssue", issue, <<>>,
                                              "Unknown issue"))
              /\ UNCHANGED local
         ELSE /\ local' = [local EXCEPT
                              !.issues = MapDelete(@, issue.title)]
              /\ log' = Append(log, LocalCall("CloseIssue", issue,
                                              <<issue>>, "nil"))
    /\ UNCHANGED <<goroutine, runtime>>
    /\ LocalRest

(***************************************************************************)
(* local.Client under concurrent requests                                  *)
(***************************************************************************)

\* net/http runs ServeHTTP of each request in a goroutine of its own, and
\* all of them call the one local.Client.  A method reads or writes the
\* map over a stretch of time: the access is opened and later closed.

\* What the method a goroutine is in does to the map.
AccessKind(at) ==
    IF at \in {"CreateIssue", "delete"} THEN "write" ELSE "read"

\* The goroutines whose open access and an access of this kind by r are
\* a data race: the same map, not ordered, one of them a write.
Racing(r, kind) ==
    {q \in Slots \ {r} :
        /\ goroutine[q].access # "none"
        /\ "write" \in {kind, goroutine[q].access}}

\* processAlert after the list: what the handler calls next.
AfterLocalList(status, found) ==
    IF status = "firing" /\ ~found THEN "CreateIssue"
    ELSE IF status = "resolved" /\ found THEN "CloseIssue"
    ELSE "done"

\* A request arrives: ServeHTTP decodes it and processAlert calls
\* ListOpenIssues.
Handle(r) ==
    /\ runtime = "running"
    /\ goroutine[r].pc = "idle"
    /\ \E status \in Statuses, title \in LocalTitles :
         goroutine' = [goroutine EXCEPT
                          ![r] = [@ EXCEPT !.pc = "ListOpenIssues",
                                           !.status = status,
                                           !.title = title]]
    /\ UNCHANGED <<local, log, runtime>>
    /\ LocalRest

\* A method starts to read or write the map.  With a racing access open
\* the behaviour is undefined: the runtime may find the misuse and stop the
\* process ("fatal error: concurrent map writes"), or go on.
BeginAccess(r) ==
    /\ runtime = "running"
    /\ goroutine[r].pc \in {"ListOpenIssues", "CreateIssue", "CloseIssue",
                             "delete"}
    /\ goroutine[r].access = "none"
    /\ LET kind == AccessKind(goroutine[r].pc)
           racing == Racing(r, kind)
       IN  /\ goroutine' =
                 [q \in Slots |->
                     IF q = r
                     THEN [goroutine[q] EXCEPT !.access = kind,
                                               !.raced = racing # {}]
                     ELSE IF q \in racing
                     THEN [goroutine[q] EXCEPT !.raced = TRUE]
                     ELSE goroutine[q]]
           /\ IF racing = {}
              THEN UNCHANGED runtime
              ELSE runtime' \in {"running", "fatal error"}
    /\ UNCHANGED <<local, log>>
    /\ LocalRest

\* What a read of the map that raced can have seen.
Seen(r, value) == IF goroutine[r].raced THEN BOOLEAN ELSE {value}

\* What a write of the map that raced can leave.
Left(r, issues) == IF goroutine[r].raced THEN {issues, local.issues} ELSE {issues}

Ends(r, at) ==
    /\ runtime = "running"
    /\ goroutine[r].pc = at
    /\ goroutine[r].access # "none"

\* ListOpenIssues returns and the handler searches the list for its title.
EndListOpenIssues(r) ==
    /\ Ends(r, "ListOpenIssues")
    /\ \E found \in Seen(r, MapHas(local.issues, goroutine[r].title)) :
         goroutine' = [goroutine EXCEPT
                          ![r] = [@ EXCEPT
                                     !.pc = AfterLocalList(
                                                goroutine[r].status, found),
                                     !.found = found,
                                     !.access = "none", !.raced = FALSE]]
    /\ UNCHANGED <<local, log, runtime>>
    /\ LocalRest

EndCreateIssue(r) ==
    /\ Ends(r, "CreateIssue")
    /\ \E issues \in Left(r, MapPut(local.issues, goroutine[r].title,
                                     LocalIssue(goroutine[r].title,
                                                "foobar"))) :
         local' = [local EXCEPT !.issues = issues]
    /\ goroutine' = [goroutine EXCEPT
                        ![r] = [@ EXCEPT !.pc = "done", !.access = "none",
                                         !.raced = FALSE]]
    /\ UNCHANGED <<log, runtime>>
    /\ LocalRest

\* The lookup of CloseIssue.
EndCloseIssue(r) ==
    /\ Ends(r, "CloseIssue")
    /\ \E ok \in Seen(r, MapHas(local.issues, goroutine[r].title)) :
         goroutine' = [goroutine EXCEPT
                          ![r] = [@ EXCEPT
                                     !.pc = IF ok THEN "delete" ELSE "done",
                                     !.err = IF ok THEN "nil"
                                                   ELSE "Unknown issue",
                                     !.access = "none", !.raced = FALSE]]
    /\ UNCHANGED <<local, log, runtime>>
    /\ LocalRest

\* The delete of CloseIssue.
EndDelete(r) ==
    /\ Ends(r, "delete")
    /\ \E issues \in Left(r, MapDelete(local.issues, goroutine[r].title)) :
         local' = [local EXCEPT !.issues = issues]
    /\ goroutine' = [goroutine EXCEPT
                        ![r] = [@ EXCEPT !.pc = "done", !.access = "none",
                                         !.raced = FALSE]]
    /\ UNCHANGED <<log, runtime>>
    /\ LocalRest

(***************************************************************************)
(* main                                                                    *)
(***************************************************************************)

\* nil *ReceiverHandler
NilReceiver ==
    [AutoClose |-> FALSE, ResolvedLabel |-> "", DefaultRepo |-> "",
     ExtraLabels |-> <<>>, titleTmpl |-> "", alertTmpl |-> ""]

\* The command lines main is started with: -authtoken, -org and -repo given
\* or not, -enterprise.base-url absent, good or not a URL, and template
\* files that hold a template that parses or "{{ x }}", which does not.
CommandLines ==
    [required : BOOLEAN,
     githubBaseURL : {"", "https://ghe.example.com/", "%"},
     enableAutoClose : {TRUE},
     labelOnResolved : {"resolved"},
     repo : {"default"},
     extraLabels : {<<"bug">>},
     titleTmplFile : TitleTemplates \cup {"{{ x }}"},
     alertTmplFile : AlertTemplates \cup {"{{ x }}"}]

NoFlags ==
    [required |-> TRUE, githubBaseURL |-> "", enableAutoClose |-> FALSE,
     labelOnResolved |-> "", repo |-> "", extraLabels |-> <<>>,
     titleTmplFile |-> "", alertTmplFile |-> ""]

\* Mutant: every template text parses.
Parse_Lenient(text) == "nil"

\* template.New(name).Parse(text): the error, "nil" if there is none.
Parse(text) == IF text = "{{ x }}" THEN "function x not defined" ELSE "nil"

\* NewReceiver: <<handler, error>>.
NewReceiver(githubRepo, autoClose, resolvedLabel, extraLabels, titleTmplStr, alertTmplStr) ==
    IF Parse(titleTmplStr) # "nil"
    THEN [rh |-> NilReceiver, err |-> Parse(titleTmplStr)]
    ELSE IF Parse(alertTmplStr) # "nil"
    THEN [rh |-> NilReceiver, err |-> Parse(alertTmplStr)]
    ELSE [rh |-> [AutoClose |-> autoClose, ResolvedLabel |-> resolvedLabel,
                  DefaultRepo |-> githubRepo, ExtraLabels |-> extraLabels,
                  titleTmpl |-> titleTmplStr, alertTmpl |-> alertTmplStr],
          err |-> "nil"]

\* github.NewEnterpriseClient parses the base URL.
NewEnterpriseClient(baseURL) ==
    IF baseURL = "%" THEN "invalid URL escape" ELSE "nil"

Exited(status) == [pc |-> "exit", status |-> status]
Serving == [pc |-> "serving", status |-> 0]

\* main: from the flags to osExit(1) or to the server that listens.
main ==
    /\ process.pc = "main"
    /\ LET receiver == NewReceiver(flags.repo, flags.enableAutoClose,
                                   flags.labelOnResolved, flags.extraLabels,
                                   flags.titleTmplFile, flags.alertTmplFile)
       IN  IF ~flags.required
           THEN process' = Exited(1) /\ UNCHANGED rh
           ELSE IF /\ flags.githubBaseURL # ""
                   /\ NewEnterpriseClient(flags.githubBaseURL) # "nil"
           THEN process' = Exited(1) /\ UNCHANGED rh
           ELSE IF receiver.err # "nil"
           THEN process' = Exited(1) /\ UNCHANGED rh
           ELSE process' = Serving /\ rh' = receiver.rh
    /\ UNCHANGED <<tracker, pc, msg, msgTitle, foundIssue, calls, err, resp,
                   concurrent, req, written, metrics, listTemplate, search,
                   alerts, cards, slices, github, client, operationCount, inMemory,
                   flags, split>>

(***************************************************************************)
(* Specifications                                                          *)
(***************************************************************************)

\* No call of the Client, nothing counted.
ClientIdle ==
    /\ github = [labels |-> {}, created |-> <<>>, closed |-> FALSE]
    /\ client = NoCall
    /\ operationCount = [code \in {200, 201, 404, 500} |-> 0]

\* local.NewClient, no call made yet.
NoGoroutine ==
    [pc |-> "idle", status |-> "", title |-> "", access |-> "none",
     raced |-> FALSE, found |-> FALSE, err |-> "nil"]

LocalIdle ==
    /\ local = [issues |-> <<>>]
    /\ log = <<>>
    /\ goroutine = [r \in Slots |-> NoGoroutine]
    /\ runtime = "running"

\* main has built the receiver and serves.
Started ==
    /\ flags = NoFlags
    /\ process = Serving
    /\ split = NoPath

\* The layers the handlers' specifications leave out stand still.
Rest == ClientIdle /\ LocalIdle /\ Started

\* No request received yet, every counter at zero.
Idle ==
    /\ pc = [r \in Slots |-> "idle"]
    /\ msg = [r \in Slots |-> NoMessage]
    /\ msgTitle = [r \in Slots |-> ""]
    /\ foundIssue = [r \in Slots |-> NilIssue]
    /\ calls = [r \in Slots |-> <<>>]
    /\ err = [r \in Slots |-> "nil"]
    /\ resp = [r \in Slots |-> 0]
    /\ concurrent = FALSE
    /\ req = [r \in Slots |-> NoRequest]
    /\ written = [r \in Slots |-> <<>>]
    /\ receivedAlerts = [k \in AlertNames \X AnyStatuses |-> 0]
    /\ createdIssues = [a \in AlertNames |-> 0]
    /\ alerts = [r \in Slots |-> <<>>]
    /\ cards = <<>>

\* rh.ExtraLabels fills its array, and no request has appended to it.
Unshared == slices = NoSlices

\* NewReceiver with templates that parse; the tracker holds no issue or one
\* open issue of an earlier alert.
Init ==
    /\ rh \in [AutoClose : BOOLEAN,
               ResolvedLabel : {"", "resolved"},
               DefaultRepo : {"default"},
               ExtraLabels : {<<"bug">>},
               titleTmpl : TitleTemplates,
               alertTmpl : AlertTemplates]
    /\ tracker \in {<<>>,
                    TrackerCreate(<<>>, "default", "DiskRunningFull",
                                  <<"body1">>, <<>>)}
    /\ listTemplate = "listRawHTMLTemplate"
    /\ search = NoSearch
    /\ Idle
    /\ Unshared
    /\ Rest

Next ==
    \E r \in Slots :
        \/ ServeHTTP(r)
        \/ CreateIssue(r)
        \/ LabelIssueRemove(r)
        \/ LabelIssueAdd(r)
        \/ CloseIssue(r)

Spec == Init /\ [][Next]_vars

\* A receiver started with -enable-auto-close and -label-on-resolved, so
\* that every tracker operation occurs.
AutoCloseReceiver ==
    [AutoClose |-> TRUE, ResolvedLabel |-> "resolved",
     DefaultRepo |-> "default", ExtraLabels |-> <<"bug">>,
     titleTmpl |-> "DefaultTitleTmpl", alertTmpl |-> "DefaultAlertTmpl"]

\* The receiver on a route that groups by alertname and instance, with
\* auto-close on or off.
InitGroups ==
    /\ rh \in {[AutoCloseReceiver EXCEPT !.AutoClose = a, !.titleTmpl = t] :
                    a \in BOOLEAN, t \in TitleTemplates}
    /\ tracker \in {<<>>,
                    TrackerCreate(<<>>, "default", "DiskRunningFull",
                                  <<"body1">>, <<>>)}
    /\ listTemplate = "listRawHTMLTemplate"
    /\ search = NoSearch
    /\ Idle
    /\ Unshared
    /\ Rest

NextGroups ==
    \E r \in Slots :
        \/ ServeHTTPGroups(r)
        \/ CreateIssue(r)
        \/ LabelIssueRemove(r)
        \/ LabelIssueAdd(r)
        \/ CloseIssue(r)

GroupsSpec == InitGroups /\ [][NextGroups]_vars

\* Both routes of the mux: the list route "/" next to the receiver.
InitList ==
    /\ rh = AutoCloseReceiver
    /\ tracker \in {<<>>,
                    TrackerCreate(<<>>, "default", "DiskRunningFull",
                                  <<"body1">>, <<>>)}
    /\ listTemplate \in ListTemplates
    /\ search = NoSearch
    /\ Idle
    /\ Unshared
    /\ Rest

NextList ==
    \E r \in Slots :
        \/ ListServeHTTP(r)
        \/ ServeHTTP(r)
        \/ CreateIssue(r)
        \/ LabelIssueRemove(r)
        \/ LabelIssueAdd(r)
        \/ CloseIssue(r)

ListSpec == InitList /\ [][NextList]_vars

\* The search loop on every list and title, apart from the requests.
InitSearch ==
    /\ rh = AutoCloseReceiver
    /\ tracker = <<>>
    /\ listTemplate = "listRawHTMLTemplate"
    /\ search \in {[issues |-> ListOf(l), msgTitle |-> t,
                     foundIssue |-> NilIssue, i |-> 1, pc |-> "range"] :
                        l \in IssueLists, t \in SearchTitles}
    /\ Idle
    /\ Unshared
    /\ Rest

NextSearch == SearchStep

\* The receiver that reads the annotations of the first alert.
InitAnnotations ==
    /\ rh \in {[AutoCloseReceiver EXCEPT !.ExtraLabels = labels] :
                    labels \in LabelFlags}
    /\ tracker \in {<<>>,
                    TrackerCreate(<<>>, "default", "DiskRunningFull",
                                  <<"body1">>, <<>>)}
    /\ listTemplate = "listRawHTMLTemplate"
    /\ search = NoSearch
    /\ Idle
    /\ slices = [NoSlices EXCEPT !.spare = Spare(rh.ExtraLabels)]
    /\ Rest

NextAnnotations ==
    \E r \in Slots :
        \/ ServeHTTPAnnotations(r)
        \/ CreateIssueAnnotations(r)
        \/ AssignIssueToProject(r)
        \/ LabelIssueRemove(r)
        \/ LabelIssueAdd(r)
        \/ CloseIssue(r)

AnnotationsSpec == InitAnnotations /\ [][NextAnnotations]_vars

SearchSpec == InitSearch /\ [][NextSearch]_vars

\* issues.Client on its own: calls one after another on an issue that
\* carries the resolved label or not.
InitClient ==
    /\ rh = AutoCloseReceiver
    /\ tracker = <<>>
    /\ listTemplate = "listRawHTMLTemplate"
    /\ search = NoSearch
    /\ Idle
    /\ Unshared
    /\ github \in {[labels |-> l, created |-> <<>>, closed |-> FALSE] :
                     l \in SUBSET {"resolved"}}
    /\ client = NoCall
    /\ operationCount = [code \in {200, 201, 404, 500} |-> 0]
    /\ LocalIdle
    /\ Started

NextClient ==
    \/ ClientCloseIssue
    \/ ClientCreateIssue
    \/ ClientLabelIssue
    \/ ClientListOpenIssues
    \/ SearchIssues

ClientSpec == InitClient /\ [][NextClient]_vars

\* getOrgAndRepoFromIssue on every path of up to MaxFields fields.
InitPath ==
    /\ rh = AutoCloseReceiver
    /\ tracker = <<>>
    /\ listTemplate = "listRawHTMLTemplate"
    /\ search = NoSearch
    /\ Idle
    /\ Unshared
    /\ ClientIdle
    /\ LocalIdle
    /\ flags = NoFlags
    /\ process = Serving
    /\ split \in {[NoPath EXCEPT !.pc = "split", !.fields = f] : f \in FieldLists}

NextPath == ReadOrgAndRepo

PathSpec == InitPath /\ [][NextPath]_vars

\* Client.ListOpenIssues alone.  The goroutine in its loop goes on, and
\* every page request returns: a loop iteration that can be taken is taken.
NextPaging == ClientListOpenIssues \/ SearchIssues

PagingSpec == InitClient /\ [][NextPaging]_vars /\ WF_vars(SearchIssues)

\* The methods of local.Client called one after another, as its test does.
InitLocal ==
    /\ rh = AutoCloseReceiver
    /\ tracker = <<>>
    /\ listTemplate = "listRawHTMLTemplate"
    /\ search = NoSearch
    /\ Idle
    /\ Unshared
    /\ Rest

NextLocal == LocalCreateIssue \/ LocalListOpenIssues \/ LocalCloseIssue

LocalSpec == InitLocal /\ [][NextLocal]_vars

\* The receiver started with -enable-inmemory: the goroutines of the
\* requests on the one local.Client.
NextInMemory ==
    \E r \in Slots :
        \/ Handle(r)
        \/ BeginAccess(r)
        \/ EndListOpenIssues(r)
        \/ EndCreateIssue(r)
        \/ EndCloseIssue(r)
        \/ EndDelete(r)

InMemorySpec == InitLocal /\ [][NextInMemory]_vars

\* The program from its start: main, and both routes once it serves.
InitMain ==
    /\ rh = NilReceiver
    /\ tracker = <<>>
    /\ listTemplate = "listRawHTMLTemplate"
    /\ search = NoSearch
    /\ Idle
    /\ Unshared
    /\ ClientIdle
    /\ LocalIdle
    /\ flags \in CommandLines
    /\ process = [pc |-> "main", status |-> 0]
    /\ split = NoPath

NextMain == main \/ NextList

MainSpec == InitMain /\ [][NextMain]_vars

(***************************************************************************)
(* Properties                                                              *)
(***************************************************************************)

Done(r) == pc[r] = "done"

\* The request was a POST whose body decoded to a notification.
Decoded(r) == msg[r] # NoMessage

\* processAlert ran and its ListOpenIssues call succeeded.
Listed(r) == Decoded(r) /\ calls[r] # <<>> /\ calls[r][1].err = "nil"

\* The write calls of a request, in order.
Writes(r) == SelectSeq(calls[r], LAMBDA c : c.op # "ListOpenIssues")

TitleRenders == formatTitle(rh.titleTmpl, NoMessage).err = "nil"
BodyRenders == formatIssueBody(rh.alertTmpl, NoMessage).err = "nil"

Outcomes == {"nil"} \cup TrackerErrors

\* A firing notification whose rendered title is the title of no listed issue.
NewFiring(r) ==
    /\ Done(r) /\ Listed(r) /\ TitleRenders
    /\ msg[r].status = "firing"
    /\ foundIssue[r] = NilIssue

\* The one CreateIssue call the claim describes.
CreatesOnce(r) ==
    \E e \in Outcomes :
        Writes(r) =
            <<CreateCall(getTargetRepo(msg[r]),
                         formatTitle(rh.titleTmpl, msg[r]).text,
                         formatIssueBody(rh.alertTmpl, msg[r]).text,
                         rh.ExtraLabels, e)>>

\* C1 as stated: every firing notification whose rendered title matches no
\* listed issue makes exactly one CreateIssue call (resolved repository,
\* rendered title and body, configured extra labels) and no other write.
C1_Original == \A r \in Slots : NewFiring(r) => CreatesOnce(r)

\* C1 amended: every firing notification whose rendered title matches no
\* listed issue and whose body template renders makes exactly one CreateIssue
\* call (resolved repository, rendered title and body, configured extra
\* labels) and no LabelIssue or CloseIssue call; when the body template
\* fails no call is made.
C1_CreateOnce ==
    \A r \in Slots :
        NewFiring(r) =>
            IF BodyRenders THEN CreatesOnce(r) ELSE Writes(r) = <<>>

C1_Witness ==
    \E r \in Slots :
        /\ NewFiring(r) /\ BodyRenders
        /\ Writes(r) =
              <<CreateCall("custom-repo", "NodeDown",
                           formatIssueBody(rh.alertTmpl, msg[r]).text,
                           <<"bug">>, "nil")>>
        /\ \E i \in DOMAIN tracker :
              tracker[i].title = "NodeDown" /\ tracker[i].repo = "custom-repo"

\* A notification whose rendered title is the title of a listed issue.
Matched(r, status) ==
    /\ Done(r) /\ Listed(r) /\ TitleRenders
    /\ msg[r].status = status
    /\ foundIssue[r] # NilIssue

\* The one LabelIssue call on the matched issue with the resolved label.
LabelsOnce(r, add) ==
    \E e \in Outcomes :
        Writes(r) =
            <<LabelCall(foundIssue[r], rh.ResolvedLabel, add,
                        rh.ResolvedLabel # "", e)>>

\* C2: a firing notification whose rendered title is the title of a listed
\* issue makes no CreateIssue and no CloseIssue call; its only write is one
\* LabelIssue(matched issue, resolved label, add=false), and the issue keeps
\* its title and body.
C2_RefireOnlyUnlabels ==
    \A r \in Slots :
        Matched(r, "firing") =>
            /\ foundIssue[r].title = formatTitle(rh.titleTmpl, msg[r]).text
            /\ LabelsOnce(r, FALSE)
            /\ tracker[foundIssue[r].number].title = foundIssue[r].title
            /\ tracker[foundIssue[r].number].body = foundIssue[r].body

C2_Witness ==
    \E r \in Slots :
        /\ Matched(r, "firing")
        /\ rh.ResolvedLabel = "resolved"
        /\ Writes(r) =
              <<LabelCall(foundIssue[r], "resolved", FALSE, TRUE, "nil")>>
        /\ tracker[foundIssue[r].number].body = <<"body1">>

\* The same firing notification sent twice, one after the other, while an
\* open issue with its title exists: the first of the two found the issue.
SentTwice(r1, r2) ==
    /\ r2 = r1 + 1
    /\ ~concurrent
    /\ Done(r1) /\ Done(r2)
    /\ Decoded(r2) /\ msg[r2] = msg[r1]
    /\ Matched(r1, "firing")

CountCalls(r, Test(_)) ==
    Cardinality({i \in DOMAIN calls[r] : Test(calls[r][i])})

IsCreate(c) == c.op = "CreateIssue"
IsLabelRemove(c) == c.op = "LabelIssue" /\ ~c.add
IsSentLabelRemove(c) == IsLabelRemove(c) /\ c.sent

\* C3 as stated: the two notifications make no CreateIssue call and at most
\* one label-remove call in total.
C3_Original ==
    \A r1, r2 \in Slots :
        SentTwice(r1, r2) =>
            /\ CountCalls(r1, IsCreate) + CountCalls(r2, IsCreate) = 0
            /\ CountCalls(r1, IsLabelRemove) + CountCalls(r2, IsLabelRemove)
                  <= 1

\* C3 amended: the two notifications make no CreateIssue call and one
\* label-remove call each on the same issue (the second only if its list
\* call succeeds), so up to two in total; with an empty resolved label none
\* of them is sent to the tracker.
C3_RefireTwice ==
    \A r1, r2 \in Slots :
        SentTwice(r1, r2) =>
            /\ CountCalls(r1, IsCreate) + CountCalls(r2, IsCreate) = 0
            /\ LabelsOnce(r1, FALSE)
            /\ IF Listed(r2)
               THEN /\ foundIssue[r2].number = foundIssue[r1].number
                    /\ LabelsOnce(r2, FALSE)
               ELSE Writes(r2) = <<>>
            /\ rh.ResolvedLabel = "" =>
                  CountCalls(r1, IsSentLabelRemove)
                      + CountCalls(r2, IsSentLabelRemove) = 0

C3_Witness ==
    \E r1, r2 \in Slots :
        /\ SentTwice(r1, r2)
        /\ rh.ResolvedLabel = "resolved"
        /\ CountCalls(r1, IsSentLabelRemove) = 1
        /\ CountCalls(r2, IsSentLabelRemove) = 1
        /\ err[r1] = "nil" /\ err[r2] = "nil"

\* C4 as stated: a resolved notification with a matching issue and AutoClose
\* makes one LabelIssue(add=true) call, then one CloseIssue call on the same
\* issue, no CreateIssue call, and is answered 200.
C4_Original ==
    \A r \in Slots :
        (Matched(r, "resolved") /\ rh.AutoClose) =>
            /\ \E e1, e2 \in Outcomes :
                  Writes(r) =
                      <<LabelCall(foundIssue[r], rh.ResolvedLabel, TRUE,
                                  rh.ResolvedLabel # "", e1),
                        CloseCall(foundIssue[r], e2)>>
            /\ resp[r] = 200

\* C4 amended: a resolved notification with a matching issue and AutoClose
\* makes one LabelIssue(add=true) call and no CreateIssue call; if the label
\* call succeeds it is followed by exactly one CloseIssue call on the same
\* issue and the response is 200 when that succeeds too; if the label call
\* fails no CloseIssue call is made and the response is 500.
C4_LabelThenClose ==
    \A r \in Slots :
        (Matched(r, "resolved") /\ rh.AutoClose) =>
            \E e1, e2 \in Outcomes :
                LET label == LabelCall(foundIssue[r], rh.ResolvedLabel, TRUE,
                                       rh.ResolvedLabel # "", e1)
                IN  IF e1 = "nil"
                    THEN /\ Writes(r) = <<label, CloseCall(foundIssue[r], e2)>>
                         /\ resp[r] = IF e2 = "nil" THEN 200 ELSE 500
                    ELSE /\ Writes(r) = <<label>>
                         /\ resp[r] = 500

C4_Witness ==
    \E r \in Slots :
        /\ Matched(r, "resolved") /\ rh.AutoClose
        /\ rh.ResolvedLabel = "resolved"
        /\ Writes(r) =
              <<LabelCall(foundIssue[r], "resolved", TRUE, TRUE, "nil"),
                CloseCall(foundIssue[r], "nil")>>
        /\ resp[r] = 200
        /\ ~tracker[foundIssue[r].number].open
        /\ "resolved" \in tracker[foundIssue[r].number].labels

\* C5: a resolved notification with a matching issue and AutoClose off makes
\* one LabelIssue(matched issue, resolved label, add=true) call and no
\* CloseIssue call; the issue is still open.
C5_LabelOnly ==
    \A r \in Slots :
        (Matched(r, "resolved") /\ ~rh.AutoClose) =>
            /\ LabelsOnce(r, TRUE)
            /\ tracker[foundIssue[r].number].open

C5_Witness ==
    \E r \in Slots :
        /\ Matched(r, "resolved") /\ ~rh.AutoClose
        /\ Writes(r) =
              <<LabelCall(foundIssue[r], "resolved", TRUE, TRUE, "nil")>>
        /\ tracker[foundIssue[r].number].open
        /\ "resolved" \in tracker[foundIssue[r].number].labels
        /\ resp[r] = 200

\* A resolved notification whose rendered title matches no listed issue.
ResolvedUnmatched(r) ==
    /\ Listed(r) /\ TitleRenders
    /\ msg[r].status = "resolved"
    /\ foundIssue[r] = NilIssue

\* C6: a resolved notification whose rendered title matches no listed issue
\* makes no CreateIssue, LabelIssue or CloseIssue call, is answered 200, and
\* its handling leaves the tracker as it was.
C6_ResolvedNoMatchNoOp ==
    /\ [](\A r \in Slots :
            (pc[r] # "idle" /\ ResolvedUnmatched(r)) =>
                /\ Done(r)
                /\ Writes(r) = <<>>
                /\ err[r] = "nil"
                /\ resp[r] = 200)
    /\ [][\A r \in Slots :
            (pc[r] = "idle" /\ pc'[r] # "idle" /\ ResolvedUnmatched(r)') =>
                tracker' = tracker]_vars

C6_Witness ==
    \E r \in Slots :
        /\ Done(r) /\ ResolvedUnmatched(r)
        /\ \E i \in DOMAIN tracker : tracker[i].open
        /\ resp[r] = 200

\* The repository the claim names: the "repo" label when present and not
\* empty, the default repository otherwise.
ClaimedRepo(m) ==
    IF \E p \in m.commonLabels : p[1] = "repo" /\ p[2] # ""
    THEN (CHOOSE p \in m.commonLabels : p[1] = "repo")[2]
    ELSE rh.DefaultRepo

\* C7: the repository passed to CreateIssue is commonLabels["repo"] when
\* that label is present and not empty, and the default repository when it
\* is absent or empty.
C7_TargetRepo ==
    \A r \in Slots :
        \A i \in DOMAIN calls[r] :
            calls[r][i].op = "CreateIssue" =>
                calls[r][i].repo = ClaimedRepo(msg[r])

C7_Witness ==
    \E r1, r2 \in Slots :
        /\ msg[r1].commonLabels = {<<"repo", "custom-repo">>}
        /\ CountCalls(r1, LAMBDA c : IsCreate(c) /\ c.repo = "custom-repo") = 1
        /\ msg[r2].commonLabels = {<<"repo", "">>}
        /\ CountCalls(r2, LAMBDA c : IsCreate(c) /\ c.repo = "default") = 1

\* The request failed and wrote nothing.
FailsUnwritten(r) == resp[r] = 500 /\ Writes(r) = <<>>

\* C8 as stated: whatever the notification, when the title or the body
\* template names a field that does not exist the request is answered 500
\* and makes no CreateIssue, LabelIssue or CloseIssue call.
C8_Original ==
    \A r \in Slots :
        (Done(r) /\ Decoded(r) /\ (~TitleRenders \/ ~BodyRenders)) =>
            FailsUnwritten(r)

\* C8 amended: when the title template names a field that does not exist
\* every notification is answered 500 and makes no write call; when the body
\* template does, that holds for the firing notifications whose title
\* matches no listed issue, the only ones whose body is rendered.
C8_TemplateFailure ==
    \A r \in Slots :
        /\ (Done(r) /\ Decoded(r) /\ ~TitleRenders) =>
              /\ FailsUnwritten(r)
              /\ Listed(r) => err[r] = "format title"
        /\ (NewFiring(r) /\ ~BodyRenders) =>
              /\ FailsUnwritten(r)
              /\ err[r] = "format body"

C8_Witness ==
    \E r1, r2 \in Slots :
        /\ NewFiring(r1) /\ ~BodyRenders
        /\ FailsUnwritten(r1)
        /\ Matched(r2, "resolved")
        /\ resp[r2] = 200
        /\ Writes(r2) # <<>>

\* C9: when ListOpenIssues, CreateIssue, LabelIssue or CloseIssue returns an
\* error, processAlert returns that error, the response is 500 and the
\* failing call is the last call of the request.
C9_ErrorAborts ==
    \A r \in Slots :
        \A i \in DOMAIN calls[r] :
            calls[r][i].err # "nil" =>
                /\ i = Len(calls[r])
                /\ Done(r)
                /\ err[r] = calls[r][i].err
                /\ resp[r] = 500

C9_Witness ==
    \E r \in Slots :
        /\ Matched(r, "resolved") /\ rh.AutoClose
        /\ Len(Writes(r)) = 1
        /\ Writes(r)[1].op = "LabelIssue"
        /\ Writes(r)[1].err = "server error"
        /\ err[r] = "server error"
        /\ resp[r] = 500
        /\ tracker[foundIssue[r].number].open

\* No two open issues of the tracker have the same title.
OneOpenIssuePerTitle ==
    \A i, j \in DOMAIN tracker :
        (tracker[i].open /\ tracker[j].open
            /\ tracker[i].title = tracker[j].title) => i = j

\* C10 as stated: whatever the interleaving of the requests, the tracker
\* holds at most one open issue of a given title.
C10_Original == OneOpenIssuePerTitle

\* C10 amended: as long as no request is received while another is in
\* flight, the tracker holds at most one open issue of a given title; two
\* firing notifications of one title that are in flight together can both
\* create an issue.
C10_OnePerTitleSequential == ~concurrent => OneOpenIssuePerTitle

C10_Witness ==
    /\ ~concurrent
    /\ \E r1, r2 \in Slots :
          /\ r1 # r2
          /\ msg[r1] = msg[r2]
          /\ NewFiring(r1) /\ err[r1] = "nil"
          /\ Matched(r2, "firing")
          /\ foundIssue[r2].title = msgTitle[r1]

(***************************************************************************)
(* The receiver route: requests and responses                              *)
(***************************************************************************)

\* Request r was handed to the receiver.
Received(r) == req[r] # NoRequest /\ req[r].path = "/v1/receiver"

\* C11: a request to the receiver whose method is not POST is answered 405
\* in the step that receives it; its body is neither read nor decoded and no
\* tracker call of any kind is made for it.
C11_WrongMethod ==
    \A r \in Slots :
        Received(r) /\ req[r].method # "POST" =>
            /\ Done(r) /\ resp[r] = 405
            /\ msg[r] = NoMessage
            /\ calls[r] = <<>>

C11_Witness ==
    \E r \in Slots :
        /\ Received(r) /\ req[r].method = "GET" /\ req[r].body = "bad json"
        /\ resp[r] = 405
        /\ \E q \in Slots : q # r /\ resp[q] = 200 /\ tracker # <<>>

\* C12: a POST whose body does not decode is answered 400; processAlert is
\* not called, so no notification is held and no tracker call is made.
C12_DecodeFailure ==
    \A r \in Slots :
        Received(r) /\ req[r].method = "POST" /\ req[r].body = "bad json" =>
            /\ Done(r) /\ resp[r] = 400
            /\ msg[r] = NoMessage
            /\ calls[r] = <<>>
            /\ err[r] = "nil"

C12_Witness ==
    \E r \in Slots :
        /\ Received(r) /\ req[r].method = "POST" /\ req[r].body = "bad json"
        /\ resp[r] = 400
        /\ \E q \in Slots : q # r /\ Decoded(q) /\ Len(calls[q]) = 2

\* The status the claim gives a finished request.
ClaimedStatus(r) ==
    IF req[r].method # "POST" THEN 405
    ELSE IF req[r].body = "read error" THEN 500
    ELSE IF req[r].body = "bad json" THEN 400
    ELSE IF err[r] = "nil" THEN 200
    ELSE 500

\* C13: every request to the receiver gets exactly one status and an empty
\* body: none while it is handled, then 405 for a wrong method, 500 for a
\* body that cannot be read, 400 for one that does not decode, 200 when
\* processAlert returned nil and 500 when it returned an error; a status
\* once written is never written again.
C13_OneStatusEmptyBody ==
    /\ [](\A r \in Slots :
            /\ written[r] = <<>>
            /\ ~Done(r) => resp[r] = 0
            /\ Done(r) => Received(r) /\ resp[r] = ClaimedStatus(r))
    /\ [][\A r \in Slots : resp[r] # 0 => resp'[r] = resp[r]]_vars

C13_Witness ==
    /\ \E r \in Slots :
         /\ Done(r) /\ Decoded(r) /\ err[r] = "server error"
         /\ resp[r] = 500 /\ Len(calls[r]) = 3
    /\ \E r \in Slots :
         /\ Done(r) /\ Decoded(r) /\ err[r] = "nil"
         /\ resp[r] = 200 /\ Len(calls[r]) = 3

(***************************************************************************)
(* The list route and the response boundary                                *)
(***************************************************************************)

\* Request r was handed to the ListHandler.
ListRequest(r) == req[r] # NoRequest /\ req[r].path \in Paths

\* Every text an error of this program can carry.
ErrorTexts == TrackerErrors \cup {"can't evaluate field"}

\* C14 as stated: no error detail crosses the response boundary on any
\* route; the status and the body of a response are the same whatever the
\* text of the error the tracker returned, so no body holds that text.
C14_NoErrorDetail ==
    \A r \in Slots :
        Done(r) => written[r] \notin {<<e>> : e \in ErrorTexts}

\* The issues the page of request r lists are the open issues of the
\* tracker that carry alertLabel, in the tracker's order.
PageOf(page, tr) ==
    /\ Len(page) = 2
    /\ page[2] = [i \in DOMAIN OpenIssues(tr) |->
                    <<OpenIssues(tr)[i].repo, OpenIssues(tr)[i].number,
                      OpenIssues(tr)[i].title>>]

\* C15: the list route answers GET "/" with one ListOpenIssues call and
\* then 200 and the page of the open issues when the call and the
\* rendering succeed, 500 when either fails; every other method or path is
\* answered 405 without a ListOpenIssues call.
C15_ListRoute ==
    /\ [](\A r \in Slots :
            ListRequest(r) =>
                /\ Done(r)
                /\ IF req[r].path = "/" /\ req[r].method = "GET"
                   THEN /\ Len(calls[r]) = 1
                        /\ calls[r][1].op = "ListOpenIssues"
                        /\ calls[r][1].err # "nil" => resp[r] = 500
                        /\ resp[r] \in {200, 500}
                   ELSE resp[r] = 405 /\ calls[r] = <<>>)
    /\ [][\A r \in Slots :
            /\ ~ListRequest(r) /\ ListRequest(r)'
            /\ calls'[r] # <<>> /\ calls'[r][1].err = "nil"
            => IF listTemplate = "listRawHTMLTemplate" \/ OpenIssues(tracker) = <<>>
               THEN resp'[r] = 200 /\ PageOf(written'[r], tracker)
               ELSE resp'[r] = 500]_vars

C15_Witness ==
    \E r \in Slots :
        /\ ListRequest(r) /\ resp[r] = 200
        /\ Len(written[r][2]) = 1
        /\ written[r][2][1][3] = "NodeDown"

(***************************************************************************)
(* The match                                                               *)
(***************************************************************************)

\* The positions of the list whose title is the rendered title, character
\* for character.
Hits == {i \in DOMAIN search.issues : search.issues[i].title = search.msgTitle}

\* C16: the issue acted on is the first issue, in ListOpenIssues order,
\* whose title equals the rendered title exactly; an issue whose title
\* differs in any character, case included, is never the one found, and
\* with no equal title nothing is found.  The search of the request steps
\* finds the same issue as the loop.
C16_FirstExactMatch ==
    search.pc = "done" =>
        /\ IF Hits = {}
           THEN search.foundIssue = NilIssue
           ELSE \E i \in Hits :
                   /\ \A j \in Hits : i <= j
                   /\ search.foundIssue = search.issues[i]
        /\ search.foundIssue = FindIssue(search.issues, search.msgTitle)

C16_Witness ==
    /\ search.pc = "done"
    /\ Len(search.issues) = 3
    /\ search.msgTitle = "DiskRunningFull"
    /\ search.issues[1].title = "diskrunningfull"
    /\ search.issues[2].title = "DiskRunningFull"
    /\ search.issues[3].title = "DiskRunningFull"
    /\ search.foundIssue.number = 2

(***************************************************************************)
(* The calls of one notification                                           *)
(***************************************************************************)

\* The open issues of the tracker, as a search by alertLabel sees them now,
\* that carry the given title.
OpenWithTitle(title) ==
    {tracker[i] : i \in {j \in DOMAIN tracker :
                            /\ tracker[j].open
                            /\ alertLabel \in tracker[j].labels
                            /\ tracker[j].title = title}}

\* C17: every POST that decodes makes exactly one ListOpenIssues call, its
\* first call, so before any write of that request; the issue it matches is
\* taken from what the tracker holds at that call, not from what an earlier
\* or concurrent request listed, and is never replaced later in the
\* request.
C17_OwnListFirst ==
    /\ [](\A r \in Slots :
            Decoded(r) =>
                /\ calls[r] # <<>>
                /\ \A i \in DOMAIN calls[r] :
                      (calls[r][i].op = "ListOpenIssues") <=> (i = 1))
    /\ [][\A r \in Slots :
            /\ ~Decoded(r) /\ Listed(r)' /\ TitleRenders
               => IF OpenWithTitle(msgTitle'[r]) = {}
                  THEN foundIssue'[r] = NilIssue
                  ELSE foundIssue'[r] \in OpenWithTitle(msgTitle'[r])
            /\ Decoded(r) => foundIssue'[r] = foundIssue[r]]_vars

C17_Witness ==
    \E q, r \in Slots :
        /\ q < r /\ Done(q) /\ Done(r)
        /\ msgTitle[q] = msgTitle[r]
        /\ foundIssue[q] # NilIssue
        /\ Len(calls[q]) = 3 /\ calls[q][3] = CloseCall(foundIssue[q], "nil")
        /\ Listed(r) /\ foundIssue[r] = NilIssue
        /\ Len(calls[r]) = 2 /\ calls[r][2].op = "CreateIssue"

IsLabel(c) == c.op = "LabelIssue"
IsClose(c) == c.op = "CloseIssue"

\* C18: nothing is retried: one notification calls each of CreateIssue,
\* LabelIssue and CloseIssue at most once, a call that failed is the last
\* call of its request, and CreateIssue is never called in a request that
\* calls LabelIssue or CloseIssue.
C18_NoRetry ==
    \A r \in Slots :
        /\ CountCalls(r, IsCreate) <= 1
        /\ CountCalls(r, IsLabel) <= 1
        /\ CountCalls(r, IsClose) <= 1
        /\ CountCalls(r, IsCreate) = 1 =>
              CountCalls(r, IsLabel) + CountCalls(r, IsClose) = 0
        /\ \A i \in DOMAIN calls[r] :
              calls[r][i].err # "nil" => i = Len(calls[r]) /\ Done(r)

C18_Witness ==
    /\ \E r \in Slots :
         /\ Done(r) /\ Len(calls[r]) = 2
         /\ IsCreate(calls[r][2]) /\ calls[r][2].err = "server error"
         /\ resp[r] = 500
    /\ \E r \in Slots :
         /\ Done(r) /\ Len(calls[r]) = 3
         /\ IsLabel(calls[r][2]) /\ calls[r][2].sent
         /\ IsClose(calls[r][3]) /\ calls[r][3].err = "rate limit exceeded"

(***************************************************************************)
(* The counters                                                            *)
(***************************************************************************)

\* The requests whose CreateIssue call for an alert of this name succeeded.
Created(a) ==
    {r \in Slots :
        /\ KVGet(msg[r].groupLabels, "alertname") = a
        /\ \E i \in DOMAIN calls[r] :
              IsCreate(calls[r][i]) /\ calls[r][i].err = "nil"}

\* C19: the created-issues counter of an alert name is the number of
\* CreateIssue calls for that name that succeeded, whatever the interleaving
\* of the requests: it grows by one with each of them, no increment is
\* lost, no other outcome changes it and it never decreases.
C19_CreatedCounter ==
    /\ [](\A a \in AlertNames : createdIssues[a] = Cardinality(Created(a)))
    /\ [][\A a \in AlertNames :
            /\ createdIssues'[a] >= createdIssues[a]
            /\ createdIssues'[a] <= createdIssues[a] + 1]_vars

C19_Witness ==
    /\ concurrent
    /\ createdIssues["DiskRunningFull"] = 2
    /\ createdIssues["NodeDown"] = 0
    /\ \A r \in Slots : Done(r)

(***************************************************************************)
(* Notifications without alerts                                            *)
(***************************************************************************)

\* The request decoded a notification whose alerts sequence is empty.
NoAlerts(r) == Decoded(r) /\ alerts[r] = <<>>

\* C20 as stated: a notification whose alerts sequence is empty is
\* processed without error or crash for every status and match result: its
\* handler does not panic and, when no tracker call fails, answers 200.
C20_EmptyAlerts ==
    \A r \in Slots :
        NoAlerts(r) =>
            /\ pc[r] # "panic"
            /\ Done(r) /\ (\A i \in DOMAIN calls[r] : calls[r][i].err = "nil")
                  => resp[r] = 200

(***************************************************************************)
(* The project card                                                        *)
(***************************************************************************)

IsAssign(c) == c.op = "AssignIssueToProject"

\* C21 as stated: AssignIssueToProject is called only for a firing
\* notification, only right after a CreateIssue call of the same request
\* that succeeded (so no issue was found) and only with a column id that is
\* not zero; whatever it returns, the request answers as CreateIssue did.
C21_AssignAfterCreate ==
    \A r \in Slots :
        \A i \in DOMAIN calls[r] :
            IsAssign(calls[r][i]) =>
                /\ msg[r].status = "firing"
                /\ calls[r][i].column # 0
                /\ i > 1
                /\ IsCreate(calls[r][i - 1])
                /\ calls[r][i - 1].err = "nil"
                /\ Done(r) => resp[r] = 200

(***************************************************************************)
(* issues.Client                                                           *)
(***************************************************************************)

\* The Client call that ended last.
Ended(op) == client.op = op /\ client.pc \in {"returned", "panic"}

\* C22: Client.LabelIssue is idempotent.  With an empty label it returns
\* nil and sends nothing; the removal of a label the issue does not have,
\* answered 404, returns nil and leaves the labels as they are; adding a
\* label the issue has returns nil and leaves the labels as they are; an
\* add answered with an error status returns an error.
C22_LabelIdempotent ==
    /\ [](Ended("LabelIssue") =>
            /\ client.label = "" => client.err = "nil" /\ client.sent = <<>>
            /\ ~client.add /\ client.code = 404 => client.err = "nil"
            /\ client.add /\ client.code = 500 => client.err # "nil")
    /\ [][/\ client'.n = client.n + 1
          /\ Ended("LabelIssue")'
          /\ client'.code \in {200, 404}
          /\ (client'.label \in github.labels) <=> client'.add
          => /\ client'.err = "nil"
             /\ github'.labels = github.labels
             /\ client'.code = IF client'.add THEN 200 ELSE 404]_vars

C22_Witness ==
    /\ Ended("LabelIssue")
    /\ client.n = 2 /\ ~client.add /\ client.label = "resolved"
    /\ client.code = 404 /\ client.err = "nil"
    /\ operationCount[200] = 1 /\ operationCount[404] = 1
    /\ github.labels = {}

\* C23 as stated: for a valid issue and a label that is not empty, when the
\* request of Client.LabelIssue gets no response the call returns an error,
\* for add and remove alike, and the request that made it answers 500.
C23_NetworkError ==
    /\ Ended("LabelIssue")
    /\ client.sent # <<>>
    /\ client.fault = "network error"
    => /\ client.pc = "returned"
       /\ client.err # "nil"
       /\ HandlerStatus(client) = 500

\* All pages of the search of the running call, one after another.
RECURSIVE Concat(_)
Concat(pages) ==
    IF pages = <<>> THEN <<>> ELSE Head(pages) \o Concat(Tail(pages))

\* C24 as stated: Client.ListOpenIssues asks for the first page and then
\* for the page each answer names, until an answer names none; it returns
\* the issues of all pages in page order, and when a page request fails it
\* returns an error and no issues.
C24_AllPages ==
    client.op = "ListOpenIssues" =>
        /\ \A i \in DOMAIN client.sent :
              client.sent[i].page = IF i = 1 THEN 0 ELSE i
        /\ client.pc # "panic"
        /\ client.pc = "returned" =>
              IF client.fault = "none"
              THEN /\ client.err = "nil"
                   /\ Len(client.sent) = Len(client.pages)
                   /\ client.issues = Concat(client.pages)
              ELSE client.err # "nil" /\ client.issues = <<>>

\* C25: the labels Client.CreateIssue sends are the alert label followed by
\* the extra labels in their order, one more than the extra labels, and the
\* caller's slice is as it was given.
C25_CreateLabels ==
    Ended("CreateIssue") =>
        LET labels == client.sent[1].labels
        IN  /\ Len(client.sent) = 1
            /\ Len(labels) = Len(client.given) + 1
            /\ labels[1] = alertLabel
            /\ \A i \in DOMAIN client.given : labels[i + 1] = client.given[i]
            /\ client.extra = client.given
            /\ client.pc = "returned" /\ client.err = "nil" =>
                  github.created[Len(github.created)].labels = labels

C25_Witness ==
    /\ Ended("CreateIssue")
    /\ client.given = <<"bug", "team-a">>
    /\ client.err = "nil" /\ client.code = 201
    /\ Len(github.created) = 2
    /\ github.created[1].labels = <<alertLabel>>

(***************************************************************************)
(* The body of a created issue                                             *)
(***************************************************************************)

\* C28 as stated: the body passed to CreateIssue starts with the identifier
\* derived from the group key of the notification, and the rendered body
\* template follows it.
C28_Original ==
    \A r \in Slots :
        \A i \in DOMAIN calls[r] :
            IsCreate(calls[r][i]) =>
                /\ calls[r][i].body[1] = id(msg[r])
                /\ Tail(calls[r][i].body) = <<"Alertmanager URL:",
                                              msg[r].status,
                                              msg[r].groupLabels>>

\* C28 amended: the body passed to CreateIssue is the rendered body
\* template and nothing else: the identifier derived from the group key
\* does not start it.  An issue is matched by its title, whatever its body.
C28_BodyIsTemplate ==
    \A r \in Slots :
        /\ \A i \in DOMAIN calls[r] :
              IsCreate(calls[r][i]) =>
                  /\ calls[r][i].body = <<"Alertmanager URL:", msg[r].status,
                                          msg[r].groupLabels>>
                  /\ calls[r][i].body[1] # id(msg[r])
        /\ foundIssue[r] # NilIssue => foundIssue[r].title = msgTitle[r]

C28_Witness ==
    \E r, q \in Slots :
        /\ \E i \in DOMAIN calls[r] :
              /\ IsCreate(calls[r][i])
              /\ calls[r][i].err = "nil"
              /\ calls[r][i].body[1] = "Alertmanager URL:"
        /\ foundIssue[q] # NilIssue
        /\ foundIssue[q].body # formatIssueBody(rh.alertTmpl, msg[q]).text
        /\ foundIssue[q].body[1] # id(msg[q])

(***************************************************************************)
(* local.Client                                                            *)
(***************************************************************************)

IsLocalCreate(c) == c.op = "CreateIssue" /\ c.err = "nil"
IsLocalClose(c) == c.op = "CloseIssue" /\ c.err = "nil"
IsLocalList(c) == c.op = "ListOpenIssues"

\* The calls before call i that created an issue no later call before i
\* closed: CloseIssue closes by title.
NotClosed(i) ==
    {j \in 1..(i - 1) :
        /\ IsLocalCreate(log[j])
        /\ ~\E k \in (j + 1)..(i - 1) :
               /\ IsLocalClose(log[k])
               /\ log[k].issue.title = log[j].issue.title}

\* Of these, the last one of each title.
Latest(i) ==
    {j \in NotClosed(i) :
        ~\E k \in NotClosed(i) :
            k > j /\ log[k].issue.title = log[j].issue.title}

Returned(i) == {log[i].ret[x] : x \in DOMAIN log[i].ret}

\* C29 as stated: ListOpenIssues of the in-memory client returns exactly
\* the issues created and not closed, each with its title and body, and an
\* issue closed is not returned afterwards.
C29_Original ==
    \A i \in DOMAIN log :
        IsLocalList(log[i]) =>
            /\ log[i].err = "nil"
            /\ Len(log[i].ret) = Cardinality(NotClosed(i))
            /\ Returned(i) = {log[j].issue : j \in NotClosed(i)}

\* C29 amended: ListOpenIssues of the in-memory client returns, in no fixed
\* order, one issue for each title created and not closed since, with the
\* title and the body of the last CreateIssue of that title; after a
\* CloseIssue that succeeded no issue of that title is returned until the
\* title is created again.
C29_ListPerTitle ==
    \A i \in DOMAIN log :
        IsLocalList(log[i]) =>
            /\ log[i].err = "nil"
            /\ Len(log[i].ret) = Cardinality(Latest(i))
            /\ Returned(i) = {log[j].issue : j \in Latest(i)}
            /\ \A k \in 1..(i - 1) :
                  /\ IsLocalClose(log[k])
                  /\ ~\E j \in (k + 1)..(i - 1) :
                         /\ IsLocalCreate(log[j])
                         /\ log[j].issue.title = log[k].issue.title
                  => \A x \in DOMAIN log[i].ret :
                         log[i].ret[x].title # log[k].issue.title

C29_Witness ==
    /\ Len(log) = 4
    /\ IsLocalCreate(log[1]) /\ IsLocalCreate(log[2])
    /\ log[1].issue.title = log[2].issue.title
    /\ log[1].issue.body # log[2].issue.body
    /\ IsLocalClose(log[3]) /\ log[3].issue = log[2].issue
    /\ IsLocalList(log[4]) /\ log[4].ret = <<>>

LastCall(l) == l[Len(l)]

\* C30: CloseIssue of the in-memory client, given an issue whose title is
\* not in the store, returns an error and leaves the store as it is; the
\* second of two CloseIssue calls of one title, with no CreateIssue of the
\* title between them, fails.
C30_CloseUnknown ==
    /\ [][/\ Len(log') = Len(log) + 1
          /\ LastCall(log').op = "CloseIssue"
          /\ LastCall(log').issue.title \notin DOMAIN local.issues
          => /\ LastCall(log').err # "nil"
             /\ local' = local]_vars
    /\ [](\A i, k \in DOMAIN log :
            /\ i < k
            /\ log[i].op = "CloseIssue" /\ log[k].op = "CloseIssue"
            /\ log[i].issue.title = log[k].issue.title
            /\ ~\E j \in (i + 1)..(k - 1) :
                   /\ IsLocalCreate(log[j])
                   /\ log[j].issue.title = log[i].issue.title
            => log[k].err # "nil")

C30_Witness ==
    /\ Len(log) = 3
    /\ IsLocalCreate(log[1])
    /\ IsLocalClose(log[2]) /\ log[2].issue = log[1].issue
    /\ log[3].op = "CloseIssue" /\ log[3].issue = log[1].issue
    /\ log[3].err = "Unknown issue"
    /\ local.issues = <<>>

\* C26 as stated: with the in-memory backend too, no two requests have
\* accesses to the store open together of which one is a write, and the
\* runtime never stops the process for one.
C26_NoUnsynchronisedWrite ==
    /\ runtime = "running"
    /\ \A r, q \in Slots :
          /\ r # q
          /\ goroutine[r].access # "none"
          /\ goroutine[q].access # "none"
          => "write" \notin {goroutine[r].access, goroutine[q].access}

(***************************************************************************)
(* Startup                                                                 *)
(***************************************************************************)

BadTemplate == "{{ x }}" \in {flags.titleTmplFile, flags.alertTmplFile}

\* C27: with a title template or a body template that does not parse,
\* NewReceiver gives an error and no handler, main exits with status 1 and
\* never serves: no request is ever received, so none fails on the
\* template.
C27_BadTemplateExits ==
    BadTemplate =>
        /\ rh = NilReceiver
        /\ process.pc # "serving"
        /\ process.pc = "exit" => process.status = 1
        /\ \A r \in Slots : pc[r] = "idle" /\ resp[r] = 0 /\ calls[r] = <<>>

C27_Witness ==
    /\ flags.required /\ flags.githubBaseURL = ""
    /\ flags.titleTmplFile = "DefaultTitleTmpl"
    /\ flags.alertTmplFile = "{{ x }}"
    /\ process = Exited(1)

(***************************************************************************)
(* Termination of the list                                                 *)
(***************************************************************************)

\* C31: Client.ListOpenIssues ends when every page request returns: it
\* sends no more page requests than the search has pages, the call that is
\* in its loop ends, and it ends at the first page with no next page or at
\* the first page request that fails.
C31_ListTerminates ==
    /\ [](client.op = "ListOpenIssues" =>
            /\ Len(client.sent) <= Len(client.pages)
            /\ Ended("ListOpenIssues") =>
                  \/ client.fault # "none"
                  \/ Len(client.sent) = Len(client.pages))
    /\ (client.pc = "Search.Issues" ~> Ended("ListOpenIssues"))

C31_Witness ==
    /\ Ended("ListOpenIssues")
    /\ client.pc = "returned" /\ client.err = "nil"
    /\ Len(client.pages) = MaxPages
    /\ Len(client.sent) = MaxPages

(***************************************************************************)
(* The repository of an issue                                              *)
(***************************************************************************)

BadRepositoryURLs ==
    {"", "-://bad-url.com", "https://api.github.com/repos/fake-repo"}

\* C32: Client.CloseIssue, and Client.LabelIssue with a label that is not
\* empty, given an issue whose RepositoryURL is empty, does not parse or
\* does not end in /repos/<org>/<repo>, return an error and send nothing
\* to the tracker.
C32_BadRepositoryURL ==
    /\ client.op \in {"CloseIssue", "LabelIssue"}
    /\ client.op = "LabelIssue" => client.label # ""
    /\ client.issue.RepositoryURL \in BadRepositoryURLs
    => /\ client.pc = "returned"
       /\ client.err # "nil"
       /\ client.sent = <<>>
       /\ client.code = 0

C32_Witness ==
    /\ client.n = 2
    /\ client.op = "CloseIssue" /\ client.pc = "returned"
    /\ client.issue.RepositoryURL = "-://bad-url.com"
    /\ client.err # "nil" /\ client.sent = <<>>
    /\ ~github.closed
    /\ \A code \in DOMAIN operationCount : operationCount[code] = 0

\* The path has the two fields after a field "repos" as its last two.
EndsInRepos(fields) ==
    Len(fields) >= 3 /\ fields[Len(fields) - 2] = "repos"

Succeeded(r) ==
    /\ Done(r) /\ Listed(r)
    /\ err[r] = "nil" /\ resp[r] = 200
    /\ \A i \in DOMAIN calls[r] : calls[r][i].err = "nil"

\* No request received after r was handled with the title of r.
LastOfTitle(r) == \A q \in Slots : q > r => msgTitle[q] # msgTitle[r]

\* No request received between r and q created an issue with the title of r.
NoneCreatedBetween(r, q) ==
    \A p \in Slots :
        r < p /\ p < q =>
            \A i \in DOMAIN calls[p] :
                ~(IsCreate(calls[p][i]) /\ calls[p][i].title = msgTitle[r])

OtherStatus(r) == pc[r] # "idle" /\ Decoded(r) /\ msg[r].status \notin Statuses

OnlyLists(r) ==
    /\ Len(calls[r]) = 1
    /\ calls[r][1].op = "ListOpenIssues"

\* C35 as stated: a decoded notification whose status is neither "firing"
\* nor "resolved" makes one ListOpenIssues call and no write call and is
\* answered 200.
C35_Original ==
    \A r \in Slots :
        OtherStatus(r) => Done(r) /\ OnlyLists(r) /\ resp[r] = 200

\* C35 amended: a decoded notification whose status is neither "firing" nor
\* "resolved" makes one ListOpenIssues call and no write call, whether or
\* not an issue with its title exists; it is answered 200 when that call
\* succeeds and the title renders, and 500 when the call fails or the title
\* template fails.
C35_OtherStatusNoOp ==
    \A r \in Slots :
        OtherStatus(r) =>
            /\ Done(r) /\ OnlyLists(r)
            /\ resp[r] = IF calls[r][1].err = "nil" /\ TitleRenders
                         THEN 200 ELSE 500

C35_Witness ==
    \E r \in Slots :
        /\ OtherStatus(r) /\ Done(r)
        /\ msg[r].status = "suppressed"
        /\ foundIssue[r] # NilIssue
        /\ foundIssue[r].title = msgTitle[r]
        /\ foundIssue[r] \in OpenWithTitle(msgTitle[r])
        /\ OnlyLists(r) /\ resp[r] = 200

\* Request q created an issue and request r is the next one of its title,
\* sent for another alert group.
NextOfOtherGroup(q, r) ==
    /\ q < r
    /\ Succeeded(q) /\ CountCalls(q, IsCreate) = 1
    /\ pc[r] # "idle" /\ Listed(r)
    /\ msgTitle[r] = msgTitle[q]
    /\ GroupKey(msg[r]) # GroupKey(msg[q])
    /\ \A p \in Slots : q < p /\ p < r => msgTitle[p] # msgTitle[q]

\* The label call on the matched issue and, with auto-close on and the
\* label added, the close call on it.
LabelsThenCloses(r) ==
    \E e1, e2 \in Outcomes :
        LET label == LabelCall(foundIssue[r], rh.ResolvedLabel, TRUE,
                               rh.ResolvedLabel # "", e1)
        IN  Writes(r) = IF rh.AutoClose /\ e1 = "nil"
                        THEN <<label, CloseCall(foundIssue[r], e2)>>
                        ELSE <<label>>

\* C37: in a sequential run the issue a notification matches is the open
\* issue of its rendered title, whatever group that issue was created for:
\* the next notification of that title from another group creates nothing,
\* removes the resolved label from that issue when it is firing, and labels
\* it and (with auto-close) closes it when it is resolved.
C37_MatchByTitleOnly ==
    ~concurrent =>
        \A q, r \in Slots :
            NextOfOtherGroup(q, r) =>
                /\ foundIssue[r] # NilIssue
                /\ foundIssue[r].title = msgTitle[q]
                /\ foundIssue[r].body
                      = formatIssueBody(rh.alertTmpl, msg[q]).text
                /\ CountCalls(r, IsCreate) = 0
                /\ (Done(r) /\ msg[r].status = "firing") =>
                      LabelsOnce(r, FALSE)
                /\ (Done(r) /\ msg[r].status = "resolved") =>
                      LabelsThenCloses(r)

C37_Witness ==
    /\ ~concurrent /\ rh.AutoClose
    /\ NextOfOtherGroup(1, 2)
    /\ KVGet(msg[1].groupLabels, "instance") = "a"
    /\ KVGet(msg[2].groupLabels, "instance") = "b"
    /\ Succeeded(2) /\ msg[2].status = "resolved"
    /\ Writes(2) = <<LabelCall(foundIssue[2], "resolved", TRUE, TRUE, "nil"),
                     CloseCall(foundIssue[2], "nil")>>
    /\ OpenWithTitle(msgTitle[1]) = {}

(***************************************************************************)
(* local.Client: one issue per title                                       *)
(***************************************************************************)

\* The titles of the issues the store holds, one for each entry.
StoredTitles == [k \in DOMAIN local.issues |-> local.issues[k].title]

\* C38: the store of the in-memory client holds at most one issue of a
\* title: every entry is an issue of the title it is stored under,
\* CreateIssue of a title that is in the store puts the new issue in the
\* place of the stored one and adds no entry, and no list ListOpenIssues
\* returns holds two issues of one title.
C38_OnePerTitle ==
    /\ [](\A k1, k2 \in DOMAIN local.issues :
            StoredTitles[k1] = StoredTitles[k2] => k1 = k2)
    /\ [](\A i \in DOMAIN log :
            IsLocalList(log[i]) =>
                \A x, y \in DOMAIN log[i].ret :
                    log[i].ret[x].title = log[i].ret[y].title => x = y)
    /\ [][/\ Len(log') = Len(log) + 1
          /\ IsLocalCreate(LastCall(log'))
          /\ \E k \in DOMAIN local.issues :
                StoredTitles[k] = LastCall(log').issue.title
          => /\ DOMAIN local'.issues = DOMAIN local.issues
             /\ \A k \in DOMAIN local'.issues :
                   local'.issues[k] =
                       IF StoredTitles[k] = LastCall(log').issue.title
                       THEN LastCall(log').issue
                       ELSE local.issues[k]]_vars

C38_Witness ==
    /\ Len(log) = 3
    /\ IsLocalCreate(log[1]) /\ IsLocalCreate(log[2])
    /\ log[1].issue = LocalIssue("alert name", "foobar")
    /\ log[2].issue = LocalIssue("alert name", "baz")
    /\ IsLocalList(log[3])
    /\ log[3].ret = <<LocalIssue("alert name", "baz")>>
    /\ DOMAIN local.issues = {"alert name"}

(***************************************************************************)
(* The receiver that reads annotations: the labels of a new issue          *)
(***************************************************************************)

\* The labels of the "github-labels" annotation of the first alert of the
\* notification of request r.
OwnLabels(r) == parseAdditionalGithubInfo(alerts[r][1]).AdditionalLabels

\* C36 as stated: the labels of every CreateIssue call are the configured
\* extra labels followed by the labels of the annotation of the
\* notification the call is made for, whatever the interleaving of the
\* requests, and no request changes the configured extra labels.
C36_OwnLabels ==
    /\ [](\A r \in Slots :
            \A i \in DOMAIN calls[r] :
                IsCreate(calls[r][i]) =>
                    calls[r][i].extra = rh.ExtraLabels \o OwnLabels(r))
    /\ [][rh'.ExtraLabels = rh.ExtraLabels]_vars

\* The same of the runs in which no request is received while another is
\* in flight.
C36_OwnLabelsSequential ==
    ~concurrent =>
        \A r \in Slots :
            \A i \in DOMAIN calls[r] :
                IsCreate(calls[r][i]) =>
                    calls[r][i].extra = rh.ExtraLabels \o OwnLabels(r)
====
